---- MODULE Spec2Model ----
(***************************************************************************)
(* Model of the instrument-file parsers of the SNP analyzer                *)
(* (snp-analyzer/app/parsers): the format detector, the QuantStudio .eds   *)
(* raw parser, the QuantStudio .xls parsers, the Bio-Rad .pcrd raw parser, *)
(* the CFX Opus .xlsx parsers with the repair of their packaging, and the  *)
(* CFX Opus XML archive parser.                                            *)
(*                                                                         *)
(* A parser is a function from the content of one uploaded file to a       *)
(* UnifiedData value or a failure.  The state is one call: the entry point *)
(* called, the file it is given, the position of the call, the locals of   *)
(* parse_pcrd between its steps, the value returned, and the temporary     *)
(* files and directories that exist.  For calls that run at the same time  *)
(* the state is the record of each call and the temporary directory they   *)
(* share.                                                                  *)
(*                                                                         *)
(* Representation.                                                         *)
(*   - A well id "A1" is the pair <<"A", 1>> (row letter, column number).  *)
(*   - Fluorescence numbers are integers.  In the .eds model a number of   *)
(*     the signal file is the marker <<well index, array position, raw     *)
(*     index>> of the place it was read from.                              *)
(*   - An optional value (Python None or a float) is a sequence of length  *)
(*     0 or 1.                                                             *)
(*   - wells and cycles of UnifiedData (sorted lists without repeats) are  *)
(*     sets.                                                               *)
(***************************************************************************)
EXTENDS Integers, Sequences, FiniteSets, TLC

VARIABLES entry, file, pc, plate_reads, cycle_data, data_windows, result, temp_files,
          calls, tmp_dir

vars == <<entry, file, pc, plate_reads, cycle_data, data_windows, result, temp_files,
          calls, tmp_dir>>

\* the state of one call
callVars == <<entry, file, pc, plate_reads, cycle_data, data_windows, result, temp_files>>

\* the state of calls that run at the same time
concVars == <<calls, tmp_dir>>

pcrdLocals == <<plate_reads, cycle_data, data_windows>>

(***************************************************************************)
(* Bounds of the model                                                     *)
(***************************************************************************)
MaxWells == 2
MaxFlags == 2
MaxStages == 2
MaxReads == 3
MaxRows == 3
MaxSteps == 4
MaxSheetRows == 2

(***************************************************************************)
(* Generic helpers                                                          *)
(***************************************************************************)
Range(s) == {s[i] : i \in DOMAIN s}

SeqsUpTo(S, n) == UNION {[1..k -> S] : k \in 0..n}

RECURSIVE SetToSortedSeq(_)
SetToSortedSeq(S) ==
  IF S = {} THEN <<>>
  ELSE LET m == CHOOSE x \in S : \A y \in S : x <= y
       IN <<m>> \o SetToSortedSeq(S \ {m})

RECURSIVE Flatten(_)
Flatten(ss) == IF ss = <<>> THEN <<>> ELSE Head(ss) \o Flatten(Tail(ss))

None == <<>>
Some(v) == <<v>>

NoResult == [status |-> "none"]
Fail(kind) == [status |-> "error", kind |-> kind]

DataWindow(name, start, end) == [name |-> name, start_cycle |-> start, end_cycle |-> end]

WellCycleData(well, cycle, fam, allele2, rox) ==
  [well |-> well, cycle |-> cycle, fam |-> fam, allele2 |-> allele2, rox |-> rox]

\* str.upper() on the dye names and column headers of the model
Upper(d) ==
  CASE d = "fam" -> "FAM"
    [] d = "vic" -> "VIC"
    [] d = "hex" -> "HEX"
    [] d = "rox" -> "ROX"
    [] d = "Well" -> "WELL"
    [] d = "Well Position" -> "WELL POSITION"
    [] d = "Cycle" -> "CYCLE"
    [] d = "Target Name" -> "TARGET NAME"
    [] d = "Rn" -> "RN"
    [] d = "Delta Rn" -> "DELTA RN"
    [] d = "Call" -> "CALL"
    [] d = "Quality(%)" -> "QUALITY(%)"
    [] d = "Allele1 Reporter" -> "ALLELE1 REPORTER"
    [] d = "End RFU" -> "END RFU"
    [] d = "Fluor" -> "FLUOR"
    [] d = "Sample" -> "SAMPLE"
    [] d = "Type" -> "TYPE"
    [] d = "Content" -> "CONTENT"
    [] d = "Cq" -> "CQ"
    [] OTHER -> d

(***************************************************************************)
(* QuantStudio .eds raw parser (eds_raw.py)                                *)
(***************************************************************************)
WELL_ROWS == <<"A", "B", "C", "D", "E", "F", "G", "H">>

\* WELL_ROWS[row] of Python: a negative row counts from the end, a row
\* outside -8..7 raises IndexError
RowInRange(idx) == LET row == idx \div 12 IN row >= -8 /\ row <= 7

well_index_to_id(idx) ==
  LET row == idx \div 12
      col == (idx % 12) + 1
  IN <<WELL_ROWS[IF row >= 0 THEN row + 1 ELSE row + 9], col>>

\* stage_index (1-based) -> stage type, of the stages the map keeps
parse_stage_type_map(stages) ==
  LET kept == {i \in 1..Len(stages) :
                 \/ stages[i].flag = "CYCLING" /\ stages[i].collect
                 \/ stages[i].flag \in {"PRE_READ", "POST_READ", "PRE_CYCLING"}}
  IN [i \in kept |-> stages[i].flag]

\* the 0-based positions i of flags, in order, whose flag is in S
IndicesWithFlag(flags, S) ==
  SelectSeq([i \in 1..Len(flags) |-> i - 1], LAMBDA i : flags[i + 1] \in S)

\* phase_indices with the protocol ignored: the legacy flags 1/5/6 always
phase_indices_legacy(has_protocol, stages, flags) ==
  [amp  |-> IndicesWithFlag(flags, {5}),
   pre  |-> IndicesWithFlag(flags, {1}),
   post |-> IndicesWithFlag(flags, {6})]

\* parse_eds, lines 99-126: the raw indices of each phase
phase_indices(has_protocol, stages, flags) ==
  LET stage_type_map == IF has_protocol THEN parse_stage_type_map(stages) ELSE <<>>
      keys == DOMAIN stage_type_map
  IN IF keys # {}
     THEN [amp  |-> IndicesWithFlag(flags, {i \in keys : stage_type_map[i] = "CYCLING"}),
           pre  |-> IndicesWithFlag(flags, {i \in keys : stage_type_map[i] = "PRE_READ"}),
           post |-> IndicesWithFlag(flags, {i \in keys : stage_type_map[i] = "POST_READ"})]
     ELSE [amp  |-> IndicesWithFlag(flags, {5}),
           pre  |-> IndicesWithFlag(flags, {1}),
           post |-> IndicesWithFlag(flags, {6})]

\* the last 0-based position of dyes whose upper-cased name is in S, -1 for None
LastDyeIdx(dyes, S) ==
  LET hits == {i \in 1..Len(dyes) : Upper(dyes[i]) \in S}
  IN IF hits = {} THEN -1 ELSE (CHOOSE i \in hits : \A j \in hits : j <= i) - 1

\* parse_eds, lines 146-157: the positions of FAM, VIC/HEX and ROX in first_dyes
dye_roles(first_dyes) ==
  [fam_dye_idx     |-> LastDyeIdx(first_dyes, {"FAM"}),
   allele2_dye_idx |-> LastDyeIdx(first_dyes, {"VIC", "HEX"}),
   rox_dye_idx     |-> LastDyeIdx(first_dyes, {"ROX"})]

\* parse_eds, lines 171-199: the readings of one well.  The well has one cycle
\* array per dye of its own dye list, each of alen values; the value at raw
\* index i of the array at position p is the marker <<well_idx, p, i>>.
eds_well_readings(well_idx, w, roles, all_indices) ==
  LET emitted == SelectSeq([k \in 1..Len(all_indices) |-> k],
                           LAMBDA k : all_indices[k] < w.alen)
  IN [n \in 1..Len(emitted) |->
        LET cycle_num == emitted[n]
            raw_idx == all_indices[cycle_num]
        IN WellCycleData(well_index_to_id(well_idx), cycle_num,
                         <<well_idx, roles.fam_dye_idx, raw_idx>>,
                         <<well_idx, roles.allele2_dye_idx, raw_idx>>,
                         IF roles.rox_dye_idx # -1 /\ w.alen > 0
                         THEN Some(<<well_idx, roles.rox_dye_idx, raw_idx>>)
                         ELSE None)]

\* parse_eds, lines 201-212
eds_windows(ph) ==
  LET np == Len(ph.pre)
      na == Len(ph.amp)
      no == Len(ph.post)
  IN (IF np > 0 THEN <<DataWindow("Pre-read", 1, np)>> ELSE <<>>)
     \o (IF na > 0 THEN <<DataWindow("Amplification", np + 1, np + na)>> ELSE <<>>)
     \o (IF no > 0 THEN <<DataWindow("Post-read", np + na + 1, np + na + no)>> ELSE <<>>)

\* parse_eds.  f.wells maps a well index to [dyes, alen]: the DyeList of the
\* well and the length of each of its cycle arrays (one array per dye).
parse_eds(f) ==
  IF ~f.mc THEN Fail("ValueError: no multicomponentdata.xml")
  ELSE
  LET ph == phase_indices(f.has_protocol, f.stages, f.flags)
      assigned == {x \in DOMAIN f.wells : f.wells[x].dyes # <<>>}
  IN IF assigned = {} THEN Fail("ValueError: no assigned wells")
     ELSE
     LET first_dyes == f.wells[CHOOSE x \in assigned : \A y \in assigned : x <= y].dyes
         roles == dye_roles(first_dyes)
         allele2_dye == Upper(first_dyes[roles.allele2_dye_idx + 1])
         has_rox == roles.rox_dye_idx # -1
         all_indices == ph.pre \o ph.amp \o ph.post
         order == SetToSortedSeq(assigned)
         \* cycle_arrays[i] with i past the well's arrays, or WELL_ROWS[row]
         \* with row out of range
         index_error == \E x \in assigned :
                           \/ ~RowInRange(x)
                           \/ roles.fam_dye_idx >= Len(f.wells[x].dyes)
                           \/ roles.allele2_dye_idx >= Len(f.wells[x].dyes)
                           \/ roles.rox_dye_idx >= Len(f.wells[x].dyes)
     IN IF roles.fam_dye_idx = -1 \/ roles.allele2_dye_idx = -1
        THEN Fail("ValueError: expected FAM and VIC/HEX dyes")
        ELSE IF index_error THEN Fail("IndexError")
        ELSE
        LET data == Flatten([n \in 1..Len(order) |->
                       eds_well_readings(order[n], f.wells[order[n]], roles, all_indices)])
        IN [status |-> "ok",
            instrument |-> "QuantStudio 3 (raw)",
            allele2_dye |-> allele2_dye,
            wells |-> {data[i].well : i \in DOMAIN data},
            cycles |-> {data[i].cycle : i \in DOMAIN data},
            data |-> data,
            has_rox |-> has_rox,
            data_windows |-> eds_windows(ph)]

(***************************************************************************)
(* Input files of the .eds model                                           *)
(***************************************************************************)
EdsWellIdx == {-1, 0, 95, 96}

EdsDyeLists == {<<"FAM", "VIC", "ROX">>, <<"VIC", "FAM", "ROX">>,
                <<"fam", "hex">>, <<"FAM">>, <<>>}

EdsFlagVals == {1, 2, 5, 6}

StageKinds == [flag : {"PRE_READ", "PRE_CYCLING", "CYCLING", "POST_READ"}, collect : {FALSE}]
                \cup [flag : {"CYCLING"}, collect : {TRUE}]

EdsWellRec == [dyes : EdsDyeLists, alen : (MaxFlags - 1)..MaxFlags]

EdsWellMaps ==
  UNION {[S -> EdsWellRec] : S \in {T \in SUBSET EdsWellIdx : Cardinality(T) \in 1..MaxWells}}

EdsFile(wells, flags, has_protocol, stages) ==
  [ext |-> ".eds", is_zip |-> TRUE, mc |-> TRUE, wells |-> wells, flags |-> flags,
   has_protocol |-> has_protocol, stages |-> stages]

OneGoodWell == [x \in {0} |-> [dyes |-> <<"FAM", "VIC", "ROX">>, alen |-> MaxFlags]]

\* every well layout, read under the legacy flags
EdsWellStudy ==
  {EdsFile(w, fl, FALSE, <<>>) :
     w \in EdsWellMaps,
     fl \in {[i \in 1..MaxFlags |-> 5],
             [i \in 1..MaxFlags |-> IF i = MaxFlags THEN 1 ELSE 5]}}

\* every flag list under every protocol, for one complete well
EdsStageStudy ==
  {EdsFile(OneGoodWell, fl, TRUE, st) :
     fl \in SeqsUpTo(EdsFlagVals, MaxFlags) \ {<<>>},
     st \in SeqsUpTo(StageKinds, MaxStages)}
  \cup {EdsFile(OneGoodWell, fl, FALSE, <<>>) :
     fl \in SeqsUpTo(EdsFlagVals, MaxFlags) \ {<<>>}}

\* the end-to-end archive: wells A1 and A2 with dyes [FAM,VIC,ROX], stage flags
\* [1,5,5,5,6], a protocol of PRE_READ, three collecting CYCLING stages, POST_READ
E2EStages == <<[flag |-> "PRE_READ", collect |-> FALSE],
               [flag |-> "CYCLING", collect |-> TRUE],
               [flag |-> "CYCLING", collect |-> TRUE],
               [flag |-> "CYCLING", collect |-> TRUE],
               [flag |-> "POST_READ", collect |-> FALSE]>>

E2EWells == [x \in {0, 1} |-> [dyes |-> <<"FAM", "VIC", "ROX">>, alen |-> 5]]

E2EFile == EdsFile(E2EWells, <<1, 5, 5, 5, 6>>, TRUE, E2EStages)

EdsFiles ==
  EdsWellStudy \cup EdsStageStudy
  \cup {E2EFile,
        EdsFile(E2EWells, <<1, 5, 5, 5, 6>>, FALSE, <<>>),
        [EdsFile(OneGoodWell, <<5>>, FALSE, <<>>) EXCEPT !.mc = FALSE],
        [EdsFile(OneGoodWell, <<5>>, FALSE, <<>>) EXCEPT !.is_zip = FALSE]}

(***************************************************************************)
(* Bio-Rad .pcrd raw parser (pcrd_raw.py)                                  *)
(*                                                                         *)
(* f.layers is the dyeLayer list, each [name, ch]: plateName and the       *)
(* channelPosition of its fluor (-1 when the attribute is missing);        *)
(* f.assigned the plate indices of the wellSamples of an assigned type;    *)
(* f.reads the plateRead list, each [step, ch_count, num_cols, kind, off]: *)
(* Step, ChCount and NumCols of the header, and the PAr array, which holds *)
(* ch_count * 432 values ("full"), one value less ("short"), one channel   *)
(* block more ("long") or no text at all ("empty").  The value at 0-based  *)
(* index i of the array is the marker off + i.                             *)
(***************************************************************************)
n_positions == 108

stats_per_ch == n_positions * 4

\* seq[i] of Python on a list of n values: a negative i counts from the end
PyIndexOk(n, i) == i >= -n /\ i < n

PyIndexPos(n, i) == IF i >= 0 THEN i ELSE n + i

LastLayer(layers, S) ==
  LET hits == {i \in 1..Len(layers) : Upper(layers[i].name) \in S}
  IN IF hits = {} THEN 0 ELSE CHOOSE i \in hits : \A j \in hits : j <= i

\* _parse_dye_layers: channel_map, allele2_dye, has_rox, or the failure
parse_dye_layers(layers) ==
  LET names == {Upper(layers[i].name) : i \in 1..Len(layers)}
      channel_map == [d \in names |-> layers[LastLayer(layers, {d})].ch]
      a2 == LastLayer(layers, {"VIC", "HEX"})
      allele2_dye == IF a2 = 0 THEN "VIC" ELSE Upper(layers[a2].name)
  IN IF "FAM" \notin names THEN [error |-> "ValueError: no FAM dye"]
     ELSE IF allele2_dye \notin names THEN [error |-> "ValueError: no VIC or HEX dye"]
     ELSE [error |-> "none", channel_map |-> channel_map,
           allele2_dye |-> allele2_dye, has_rox |-> "ROX" \in names]

\* _parse_plate_reads, lines 375-381: the channel of each role
fam_channel(channel_map) ==
  IF "FAM" \in DOMAIN channel_map THEN channel_map["FAM"] ELSE 0

allele2_channel(channel_map) ==
  IF "HEX" \in DOMAIN channel_map THEN channel_map["HEX"]
  ELSE IF "VIC" \in DOMAIN channel_map THEN channel_map["VIC"]
  ELSE -1

rox_channel(channel_map) ==
  IF "ROX" \in DOMAIN channel_map THEN channel_map["ROX"] ELSE -1

\* len(vals) of a plate read
read_len(r) ==
  r.ch_count * stats_per_ch
    + (CASE r.kind = "short" -> -1
         [] r.kind = "long" -> stats_per_ch
         [] OTHER -> 0)

\* the plate indices the loops over range(8) x range(num_cols) visit and keep
read_indices(r, assigned) == {p \in assigned : p >= 0 /\ p < 8 * r.num_cols}

\* value_index transposed: the position-major layout
value_index_position_major(r, ch, pos) == pos * (r.ch_count * 4) + ch * 4

\* the channel-major index of the mean of channel ch at position pos
value_index(r, ch, pos) == ch * stats_per_ch + pos * 4

\* vals[value_index]: the marker found there
read_value(r, ch, pos) == r.off + PyIndexPos(read_len(r), value_index(r, ch, pos))

\* what one plateRead does to the parse: "skip", "ok", or the exception
read_outcome(r, channel_map, assigned) ==
  LET n == read_len(r)
      chans == {fam_channel(channel_map)}
                 \cup {c \in {allele2_channel(channel_map), rox_channel(channel_map)} : c >= 0}
  IN IF r.kind = "empty" THEN "skip"
     ELSE IF n < r.ch_count * stats_per_ch THEN "ValueError: PAr data"
     ELSE IF \E p \in read_indices(r, assigned) :
                \/ \E c \in chans : ~PyIndexOk(n, value_index(r, c, p))
                \/ ~RowInRange(p)
          THEN "IndexError"
     ELSE "ok"

\* the {step, wells} entry of one plateRead that raised nothing
read_entry(r, channel_map, assigned) ==
  LET idx == read_indices(r, assigned)
      fam_ch == fam_channel(channel_map)
      allele2_ch == allele2_channel(channel_map)
      rox_ch == rox_channel(channel_map)
  IN [step |-> r.step,
      wells |-> [id \in {well_index_to_id(p) : p \in idx} |->
                   LET p == CHOOSE q \in idx : well_index_to_id(q) = id
                   IN [fam |-> read_value(r, fam_ch, p),
                       allele2 |-> IF allele2_ch >= 0 THEN read_value(r, allele2_ch, p) ELSE 0,
                       rox |-> IF rox_ch >= 0 THEN Some(read_value(r, rox_ch, p)) ELSE None]]]

\* _parse_plate_reads: the entries of the reads in file order, or the first exception
parse_plate_reads(reads, channel_map, assigned) ==
  LET outcome == [k \in 1..Len(reads) |-> read_outcome(reads[k], channel_map, assigned)]
      bad == {k \in 1..Len(reads) : outcome[k] \notin {"ok", "skip"}}
      kept == SelectSeq([k \in 1..Len(reads) |-> k], LAMBDA k : outcome[k] = "ok")
  IN IF bad # {}
     THEN [error |-> outcome[CHOOSE k \in bad : \A j \in bad : k <= j], reads |-> <<>>]
     ELSE [error |-> "none",
           reads |-> [n \in 1..Len(kept) |-> read_entry(reads[kept[n]], channel_map, assigned)]]

\* step_list: the step values in order of first appearance
step_list(prs) ==
  LET firsts == SelectSeq([k \in 1..Len(prs) |-> k],
                          LAMBDA k : \A j \in 1..(k - 1) : prs[j].step # prs[k].step)
  IN [n \in 1..Len(firsts) |-> prs[firsts[n]].step]

step_group(prs, s) == SelectSeq(prs, LAMBDA r : r.step = s)

\* amp_step_of taking the first step with the fewest reads
amp_step_fewest(prs) ==
  LET sl == step_list(prs)
      cnt(s) == Len(step_group(prs, s))
      best == CHOOSE i \in 1..Len(sl) :
                /\ \A j \in 1..Len(sl) : cnt(sl[j]) >= cnt(sl[i])
                /\ \A j \in 1..(i - 1) : cnt(sl[j]) > cnt(sl[i])
  IN [step |-> sl[best], idx |-> best]

\* max(step_list, key=count): the first step with the most reads
amp_step_of(prs) ==
  LET sl == step_list(prs)
      cnt(s) == Len(step_group(prs, s))
      best == CHOOSE i \in 1..Len(sl) :
                /\ \A j \in 1..Len(sl) : cnt(sl[j]) <= cnt(sl[i])
                /\ \A j \in 1..(i - 1) : cnt(sl[j]) < cnt(sl[i])
  IN [step |-> sl[best], idx |-> best]

step_indices(prs, s) ==
  SelectSeq([k \in 1..Len(prs) |-> k], LAMBDA k : prs[k].step = s)

\* the positions of the reads in the order the cycle numbers are given: group
\* after group, the groups in step_list order
RECURSIVE read_order(_, _)
read_order(prs, sl) ==
  IF sl = <<>> THEN <<>> ELSE step_indices(prs, Head(sl)) \o read_order(prs, Tail(sl))

RECURSIVE group_windows(_, _, _, _, _)
group_windows(prs, sl, i, amp, done) ==
  IF i > Len(sl) THEN <<>>
  ELSE LET n == Len(step_group(prs, sl[i]))
           name == IF sl[i] = amp.step THEN "Amplification"
                   ELSE IF i < amp.idx THEN "Pre-read"
                   ELSE "Post-read"
       IN <<DataWindow(name, done + 1, done + n)>>
          \o group_windows(prs, sl, i + 1, amp, done + n)

\* _classify_reads_into_windows: (windows, cycle_data)
classify_reads_into_windows(prs) ==
  LET sl == step_list(prs)
      order == read_order(prs, sl)
      cd == [c \in 1..Len(order) |-> [cycle |-> c, wells |-> prs[order[c]].wells]]
  IN IF Len(sl) = 1
     THEN [windows |-> <<DataWindow("Amplification", 1, Len(prs))>>, cycle_data |-> cd]
     ELSE [windows |-> group_windows(prs, sl, 1, amp_step_of(prs), 0), cycle_data |-> cd]

\* amp_start_idx_of taking the first cycle of the run as the baseline
amp_start_idx_first_cycle(windows) == 0

\* _subtract_baseline, lines 516-521: 0-based index of the first Amplification cycle
amp_start_idx_of(windows) ==
  LET amps == {i \in 1..Len(windows) : windows[i].name = "Amplification"}
  IN IF amps = {} THEN 0
     ELSE windows[CHOOSE i \in amps : \A j \in amps : i <= j].start_cycle - 1

\* subtract_baseline subtracting the reference dye as well
subtract_baseline_all_dyes(cd, windows) ==
  LET baseline == cd[amp_start_idx_of(windows) + 1].wells
  IN [c \in 1..Len(cd) |->
        [cd[c] EXCEPT !.wells =
           [id \in DOMAIN cd[c].wells |->
              IF id \in DOMAIN baseline
              THEN [cd[c].wells[id] EXCEPT
                      !.fam = @ - baseline[id].fam,
                      !.allele2 = @ - baseline[id].allele2,
                      !.rox = IF @ # None /\ baseline[id].rox # None
                              THEN Some(@[1] - baseline[id].rox[1]) ELSE @]
              ELSE cd[c].wells[id]]]]

\* _subtract_baseline: the cycle_data it leaves
subtract_baseline(cd, windows) ==
  LET amp_start_idx == amp_start_idx_of(windows)
  IN IF amp_start_idx >= Len(cd) THEN cd
     ELSE LET baseline == cd[amp_start_idx + 1].wells
          IN [c \in 1..Len(cd) |->
                [cd[c] EXCEPT !.wells =
                   [id \in DOMAIN cd[c].wells |->
                      IF id \in DOMAIN baseline
                      THEN [cd[c].wells[id] EXCEPT
                              !.fam = @ - baseline[id].fam,
                              !.allele2 = @ - baseline[id].allele2]
                      ELSE cd[c].wells[id]]]]

\* the row-major place of a well id: wells of one read are kept in this order
WellKey(id) == (CHOOSE i \in 1..8 : WELL_ROWS[i] = id[1]) * 12 + id[2]

WellOrder(ids) ==
  LET keys == SetToSortedSeq({WellKey(id) : id \in ids})
  IN [n \in 1..Len(keys) |-> CHOOSE id \in ids : WellKey(id) = keys[n]]

\* parse_pcrd, lines 80-96: the readings, cycle after cycle
pcrd_data(cd) ==
  Flatten([c \in 1..Len(cd) |->
             LET ids == WellOrder(DOMAIN cd[c].wells)
             IN [n \in 1..Len(ids) |->
                   LET rfu == cd[c].wells[ids[n]]
                   IN WellCycleData(ids[n], cd[c].cycle, rfu.fam, rfu.allele2, rfu.rox)]])

(***************************************************************************)
(* The protocol of a .pcrd file (pcrd_raw.py, _parse_protocol)             *)
(*                                                                         *)
(* f.protocol is the list raw_steps of the first pass: a TemperatureStep   *)
(* is [type |-> "temp", temp, hold, has_read, inc_temp], a GotoStep is     *)
(* [type |-> "goto", target, count].  Temperatures and increments are      *)
(* whole degrees.  A phase "Amplification 2 (Read)" is the record          *)
(* [name |-> "Amplification", num |-> 2, suffix |-> " (Read)"]; a loop     *)
(* annotation "Repeat Steps 2-3 x 25 cycles" is <<2, 3, 25>>, no           *)
(* annotation is <<>>, and the "?" of a target that is no temperature step *)
(* is 0.                                                                   *)
(***************************************************************************)
TempStep(temp, hold, has_read, inc_temp) ==
  [type |-> "temp", temp |-> temp, hold |-> hold, has_read |-> has_read,
   inc_temp |-> inc_temp]

GotoStep(target, count) == [type |-> "goto", target |-> target, count |-> count]

\* raw_steps[j] of Python for 0-based j: a negative j counts from the end
RawAt(raw, j) == raw[PyIndexPos(Len(raw), j) + 1]

\* the 0-based indices of the GotoSteps, in order: goto_groups
goto_idxs(raw) == SelectSeq([k \in 1..Len(raw) |-> k - 1], LAMBDA i : raw[i + 1].type = "goto")

\* range(target, goto_idx) of the group of the GotoStep at i
goto_range(raw, i) == raw[i + 1].target .. (i - 1)

\* the temperature steps in the range of the group of the GotoStep at i
goto_temps(raw, i) == {j \in goto_range(raw, i) : RawAt(raw, j).type = "temp"}

\* lines 241-242: raw_steps[j] with j below -len(raw_steps)
goto_index_error(raw) ==
  \E n \in DOMAIN goto_idxs(raw) :
    \E j \in goto_range(raw, goto_idxs(raw)[n]) : ~PyIndexOk(Len(raw), j)

\* lines 233-243: cycle_counts.get(i, 1) after the second pass
cycle_count(raw, i) ==
  LET gs == goto_idxs(raw)
      RECURSIVE Sum(_)
      Sum(n) == IF n = 0 THEN 0
                ELSE Sum(n - 1) + (IF i \in goto_temps(raw, gs[n])
                                   THEN raw[gs[n] + 1].count ELSE 0)
  IN 1 + Sum(Len(gs))

\* lines 250-255
goto_covered(raw) == UNION {goto_temps(raw, goto_idxs(raw)[n]) : n \in DOMAIN goto_idxs(raw)}

NoPhase == [name |-> "", num |-> 0, suffix |-> ""]

PlainPhase(name) == [name |-> name, num |-> 0, suffix |-> ""]

\* lines 261-275: the phase name of the n-th GOTO group
group_phase(raw, n) ==
  LET ts == goto_temps(raw, goto_idxs(raw)[n])
      has_td == \E j \in ts : RawAt(raw, j).inc_temp # 0
      has_dc == \E j \in ts : RawAt(raw, j).has_read
  IN [name |-> "Amplification", num |-> n,
      suffix |-> IF has_td THEN " (Touchdown)" ELSE IF has_dc THEN " (Read)" ELSE ""]

first_goto_target(raw) ==
  IF goto_idxs(raw) # <<>> THEN raw[goto_idxs(raw)[1] + 1].target ELSE Len(raw)

last_goto_idx(raw) ==
  IF goto_idxs(raw) # <<>> THEN goto_idxs(raw)[Len(goto_idxs(raw))] ELSE -1

\* lines 259-295: raw_phase.get(i, ""), the last group covering i winning
raw_phase(raw, i) ==
  LET gs == goto_idxs(raw)
      covering == {n \in DOMAIN gs : i \in goto_temps(raw, gs[n])}
  IN IF covering # {}
     THEN group_phase(raw, CHOOSE n \in covering : \A k \in covering : k <= n)
     ELSE IF i < first_goto_target(raw)
     THEN (IF raw[i + 1].temp <= 32 /\ raw[i + 1].has_read
           THEN PlainPhase("Pre-read") ELSE PlainPhase("Initial Denaturation"))
     ELSE IF i > last_goto_idx(raw)
     THEN (IF raw[i + 1].temp <= 32 /\ raw[i + 1].has_read
           THEN PlainPhase("Post-read") ELSE PlainPhase("Hold"))
     ELSE NoPhase

\* lines 301-306: raw_to_step.get(i, "?")
raw_to_step(raw, i) ==
  IF i >= 0 /\ i < Len(raw) /\ raw[i + 1].type = "temp"
  THEN Cardinality({k \in 0..i : raw[k + 1].type = "temp"})
  ELSE 0

\* lines 318-330
step_label(raw, i) ==
  LET step == raw[i + 1]
      total_cycles == cycle_count(raw, i)
  IN IF step.temp <= 32 /\ step.has_read
     THEN (IF i < first_goto_target(raw) THEN "Pre-Read" ELSE "Post-Read")
     ELSE IF step.temp >= 90
     THEN (IF total_cycles = 1 THEN "Initial Denaturation" ELSE "Denaturation")
     ELSE IF step.has_read THEN "Data Collection"
     ELSE IF step.inc_temp # 0
     THEN (IF step.inc_temp < 0 THEN "Annealing (TD -n/cyc)" ELSE "Annealing (TD +n/cyc)")
     ELSE IF total_cycles > 1
     THEN (IF step.temp >= 85 THEN "Denaturation" ELSE "Annealing")
     ELSE "Hold"

\* line 336: the largest index of a temperature step of the group; the group
\* has one
last_temp_in_group(raw, i) ==
  CHOOSE j \in goto_temps(raw, i) : \A k \in goto_temps(raw, i) : k <= j

\* lines 334-347: the groups the loop of step i visits before it breaks
groups_visited(raw, i) ==
  LET gs == goto_idxs(raw)
      hit(n) == goto_temps(raw, gs[n]) # {} /\ last_temp_in_group(raw, gs[n]) = i
      firsthit == IF \E n \in DOMAIN gs : hit(n)
                  THEN CHOOSE n \in DOMAIN gs : hit(n) /\ \A k \in 1..(n - 1) : ~hit(k)
                  ELSE Len(gs)
  IN 1..firsthit

\* line 336: max() of an empty sequence raises ValueError
goto_max_error(raw) ==
  \E i \in 0..(Len(raw) - 1) :
    /\ raw[i + 1].type = "temp"
    /\ \E n \in groups_visited(raw, i) : goto_temps(raw, goto_idxs(raw)[n]) = {}

\* lines 333-347: the goto_label of step i, when no max() raised
goto_label(raw, i) ==
  LET gs == goto_idxs(raw)
      hits == {n \in DOMAIN gs : goto_temps(raw, gs[n]) # {}
                                    /\ last_temp_in_group(raw, gs[n]) = i}
  IN IF hits = {} THEN <<>>
     ELSE LET n == CHOOSE k \in hits : \A m \in hits : k <= m
          IN <<raw_to_step(raw, raw[gs[n] + 1].target), raw_to_step(raw, i),
               raw[gs[n] + 1].count + 1>>

\* lines 349-357: the keyword arguments given to ProtocolStep for each step
protocol_kwargs(raw) ==
  LET temps == SelectSeq([k \in 1..Len(raw) |-> k - 1], LAMBDA i : raw[i + 1].type = "temp")
  IN [n \in 1..Len(temps) |->
        [step |-> n,
         temperature |-> raw[temps[n] + 1].temp,
         duration_sec |-> raw[temps[n] + 1].hold,
         cycles |-> cycle_count(raw, temps[n]),
         label |-> step_label(raw, temps[n]),
         phase |-> raw_phase(raw, temps[n]),
         goto_label |-> goto_label(raw, temps[n])]]

\* ProtocolStep(**kwargs): the model has the fields step, temperature,
\* duration_sec, cycles and label, and a pydantic model ignores the keyword
\* arguments that are no field of it
ProtocolStep(kw) ==
  [step |-> kw.step, temperature |-> kw.temperature, duration_sec |-> kw.duration_sec,
   cycles |-> kw.cycles, label |-> kw.label]

\* _parse_protocol: [error, steps]
pcrd_parse_protocol(raw) ==
  IF goto_index_error(raw) THEN [error |-> "IndexError", steps |-> <<>>]
  ELSE IF goto_max_error(raw) THEN [error |-> "ValueError: max() arg is an empty sequence",
                                    steps |-> <<>>]
  ELSE [error |-> "none",
        steps |-> [n \in DOMAIN protocol_kwargs(raw) |-> ProtocolStep(protocol_kwargs(raw)[n])]]

\* _extract_xml with the archive opened before the key is looked at
extract_xml_error_open_first(f) ==
  IF ~f.is_zip THEN "BadZipFile"
  ELSE IF f.entries = 0 THEN "ValueError: empty .pcrd archive"
  ELSE IF ~f.has_key THEN "ValueError: PCRD_PASSWORD is not set"
  ELSE "none"

\* _extract_xml: the exception raised, or "none".  f.has_key says whether
\* PCRD_PASSWORD is set (line 35), f.is_zip whether the file is a ZIP
\* archive, f.entries how many entries it has.
extract_xml_error(f) ==
  IF ~f.has_key THEN "ValueError: PCRD_PASSWORD is not set"
  ELSE IF ~f.is_zip THEN "BadZipFile"
  ELSE IF f.entries = 0 THEN "ValueError: empty .pcrd archive"
  ELSE "none"

\* parse_pcrd, lines 43-67: what stops the parse before the plate reads, or "none"
pcrd_setup_error(f) ==
  IF extract_xml_error(f) # "none" THEN extract_xml_error(f)
  ELSE IF f.rows # 8 \/ f.cols # 12 THEN "ValueError: not a 96-well plate"
  ELSE IF parse_dye_layers(f.layers).error # "none" THEN parse_dye_layers(f.layers).error
  ELSE IF f.assigned = {} THEN "ValueError: no assigned wells"
  ELSE pcrd_parse_protocol(f.protocol).error

(***************************************************************************)
(* Input files of the .pcrd model                                          *)
(***************************************************************************)
Layer(name, ch) == [name |-> name, ch |-> ch]

PcrdLayerLists ==
  {<<Layer("FAM", 0), Layer("HEX", 1), Layer("ROX", 2)>>,
   <<Layer("FAM", 0), Layer("VIC", 1), Layer("ROX", 2)>>,
   <<Layer("HEX", 0), Layer("FAM", 1)>>,
   <<Layer("fam", 0), Layer("hex", 1)>>,
   <<Layer("FAM", 0), Layer("VIC", 1), Layer("HEX", 2)>>,
   <<Layer("FAM", 0), Layer("HEX", 1), Layer("VIC", 2)>>,
   <<Layer("FAM", -1), Layer("HEX", 1)>>,
   <<Layer("FAM", 0), Layer("HEX", -1)>>,
   <<Layer("FAM", 0), Layer("HEX", 3)>>,
   <<Layer("HEX", 0), Layer("ROX", 1)>>,
   <<Layer("FAM", 0), Layer("ROX", 1)>>}

StdLayers == <<Layer("FAM", 0), Layer("HEX", 1), Layer("ROX", 2)>>

PcrdWellIdx == {0, 95, 96}

PcrdSteps == {1, 2, 3}

PcrdOffsets == {1000, 5000}

PcrdHeaders == [ch_count : {2, 3}, num_cols : {6, 12, 13}, kind : {"full", "short", "long", "empty"}]

PlateRead(step, hdr, off) ==
  [step |-> step, ch_count |-> hdr.ch_count, num_cols |-> hdr.num_cols,
   kind |-> hdr.kind, off |-> off]

StdHeader == [ch_count |-> 3, num_cols |-> 12, kind |-> "full"]

PcrdFile(layers, assigned, reads) ==
  [ext |-> ".pcrd", has_key |-> TRUE, is_zip |-> TRUE, entries |-> 1, rows |-> 8, cols |-> 12,
   layers |-> layers, assigned |-> assigned, reads |-> reads, protocol |-> <<>>]

\* every read sequence (steps and payloads) over the standard plate setup
PcrdReadStudy ==
  {PcrdFile(StdLayers, {0, 95}, [k \in DOMAIN ss |-> PlateRead(ss[k].step, StdHeader, ss[k].off)]) :
     ss \in SeqsUpTo([step : PcrdSteps, off : PcrdOffsets], MaxReads)}

\* every dye-layer list and well assignment, the header of the second read varying
PcrdLayerStudy ==
  {PcrdFile(l, a, <<PlateRead(1, StdHeader, 1000), PlateRead(1, h, 5000)>>) :
     l \in PcrdLayerLists, a \in SUBSET PcrdWellIdx, h \in PcrdHeaders}

\* the headers of two reads varying independently
PcrdHeaderStudy ==
  {PcrdFile(StdLayers, {0, 95}, <<PlateRead(s[1], h1, 1000), PlateRead(s[2], h2, 5000)>>) :
     s \in {<<1, 1>>, <<1, 2>>}, h1 \in PcrdHeaders, h2 \in PcrdHeaders}

ProtoTemps == {TempStep(95, 10, FALSE, 0), TempStep(60, 30, TRUE, 0), TempStep(30, 60, TRUE, 0)}

ProtoGotos == {GotoStep(t, 24) : t \in {-5, 0, 1, 2}} \cup {GotoStep(0, 2)}

\* [T1, T2, T3, GOTO(target = 1, count = 24)]
LoopExample ==
  <<TempStep(95, 10, FALSE, 0), TempStep(60, 30, FALSE, 0), TempStep(72, 30, TRUE, 0),
    GotoStep(1, 24)>>

\* every protocol over one read, and the protocols with a touchdown step
PcrdProtocolStudy ==
  {[PcrdFile(StdLayers, {0}, <<PlateRead(1, StdHeader, 1000)>>) EXCEPT !.protocol = pr] :
     pr \in SeqsUpTo(ProtoTemps \cup ProtoGotos, MaxSteps)
             \cup {LoopExample}
             \cup {<<TempStep(95, 10, FALSE, 0), TempStep(65, 30, FALSE, i), t, GotoStep(g, 9)>> :
                     i \in {-1, 1}, t \in ProtoTemps, g \in {0, 1}}}

PcrdFiles ==
  PcrdReadStudy \cup PcrdLayerStudy \cup PcrdHeaderStudy \cup PcrdProtocolStudy
  \cup {[PcrdFile(StdLayers, {0}, <<PlateRead(1, StdHeader, 1000)>>) EXCEPT !.has_key = FALSE],
        [PcrdFile(StdLayers, {0}, <<PlateRead(1, StdHeader, 1000)>>) EXCEPT !.rows = 16, !.cols = 24]}

(***************************************************************************)
(* QuantStudio .xls parsers (quantstudio.py)                               *)
(*                                                                         *)
(* f.header_found says whether one of the first 60 rows has "Well" in      *)
(* column A; f.headers is that row, stripped; f.rows the rows below it,    *)
(* each [well, cycle, fam, allele2, rox, target, rn]: the cells under the  *)
(* Well, Cycle, FAM, allele-2 (VIC, else HEX), ROX, Target Name and Rn     *)
(* columns.  A numeric cell is Some(n), any other cell None; a target is a *)
(* stripped string, "" when the cell is empty or not a string.             *)
(***************************************************************************)
\* well_num_to_id, line 21
qs_row(n) == (n - 1) \div 12

\* WELL_ROWS[row] of line 23 raises IndexError outside -8..7
WellNumOk(n) == qs_row(n) \in -8..7

\* well_num_to_id: a negative row counts from the end of WELL_ROWS
well_num_to_id(n) ==
  LET row == qs_row(n)
      col == ((n - 1) % 12) + 1
  IN <<WELL_ROWS[IF row < 0 THEN row + 9 ELSE row + 1], col>>

\* col_map of lines 43-45 and 131-133, as the set of its keys
col_names(f) == {Upper(f.headers[i]) : i \in DOMAIN f.headers}

\* the data_windows of lines 114 and 227
qs_windows(cycles) ==
  IF cycles = {} THEN <<>>
  ELSE <<DataWindow("Amplification",
                    CHOOSE c \in cycles : \A d \in cycles : c <= d,
                    CHOOSE c \in cycles : \A d \in cycles : c >= d)>>

\* parse_quantstudio, lines 74-92: the rows that reach well_num_to_id, and
\* those that are appended
qs_numbered(rows) == SelectSeq(rows, LAMBDA r : r.well # None /\ r.cycle # None)

qs_kept(rows) == SelectSeq(qs_numbered(rows), LAMBDA r : r.fam # None)

\* parse_quantstudio
parse_quantstudio(f) ==
  LET cols == col_names(f)
  IN IF ~f.header_found THEN Fail("ValueError: no header row")
     ELSE IF ~({"WELL", "CYCLE", "FAM"} \subseteq cols)
     THEN Fail("ValueError: missing required columns")
     ELSE IF cols \cap {"VIC", "HEX"} = {} THEN Fail("ValueError: no VIC or HEX column")
     ELSE IF \E i \in DOMAIN qs_numbered(f.rows) : ~WellNumOk(qs_numbered(f.rows)[i].well[1])
     THEN Fail("IndexError")
     ELSE
     LET has_rox == "ROX" \in cols
         kept == qs_kept(f.rows)
         data == [i \in 1..Len(kept) |->
                    WellCycleData(well_num_to_id(kept[i].well[1]),
                                  kept[i].cycle[1],
                                  kept[i].fam[1],
                                  IF kept[i].allele2 # None THEN kept[i].allele2[1] ELSE 0,
                                  IF has_rox THEN kept[i].rox ELSE None)]
         cycles == {data[i].cycle : i \in DOMAIN data}
     IN [status |-> "ok",
         instrument |-> "QuantStudio 3",
         allele2_dye |-> IF "VIC" \in cols THEN "VIC" ELSE "HEX",
         wells |-> {data[i].well : i \in DOMAIN data},
         cycles |-> cycles,
         data |-> data,
         has_rox |-> has_rox,
         data_windows |-> qs_windows(cycles)]

\* the target names of the model, in the order sorted() gives them
TargetOrder == <<"Allele 1", "Allele 2", "FAM-T", "HEX-T", "T1", "T2", "VIC-T">>

\* line 160: "allele 2" in t_lower or "fam" in t_lower
is_fam_target(t) == t \in {"Allele 2", "FAM-T"}

\* line 162: "allele 1" in t_lower or "vic" in t_lower or "hex" in t_lower
is_allele2_target(t) == t \in {"Allele 1", "VIC-T", "HEX-T"}

\* the targets of a set, sorted
sorted_targets(T) == SelectSeq(TargetOrder, LAMBDA t : t \in T)

\* the last element of a sequence that is in S, "" when there is none
LastOf(sq, S) ==
  IF \E i \in DOMAIN sq : sq[i] \in S
  THEN sq[CHOOSE i \in DOMAIN sq : sq[i] \in S /\ \A j \in DOMAIN sq : sq[j] \in S => j <= i]
  ELSE ""

\* parse_quantstudio_amplification, lines 144-170: [fam, allele2, dye]
identify_targets(rows) ==
  LET targets == {rows[i].target : i \in DOMAIN rows} \ {""}
      st == sorted_targets(targets)
      fam1 == LastOf(st, {t \in targets : is_fam_target(t)})
      a21 == LastOf(st, {t \in targets : is_allele2_target(t)})
      swap == fam1 = "" /\ a21 = "" /\ Cardinality(targets) = 2
  IN [fam |-> IF swap THEN st[2] ELSE fam1,
      allele2 |-> IF swap THEN st[1] ELSE a21,
      dye |-> IF "HEX-T" \in targets THEN "HEX" ELSE "VIC"]

\* the rows the second pass of lines 177-192 stores
rn_rows(rows) ==
  SelectSeq(rows, LAMBDA r : r.well # None /\ r.cycle # None /\ r.target # "" /\ r.rn # None)

\* rn_data.get((well, cycle, target), 0.0): the last row stored under the key
rn_get(stored, well, cycle, target) ==
  LET hit(r) == well_num_to_id(r.well[1]) = well /\ r.cycle[1] = cycle /\ r.target = target
  IN IF \E i \in DOMAIN stored : hit(stored[i])
     THEN stored[CHOOSE i \in DOMAIN stored :
                   hit(stored[i]) /\ \A j \in DOMAIN stored : hit(stored[j]) => j <= i].rn[1]
     ELSE 0

\* the place of a well id among the ids compared as strings: "A1" < "A10" <
\* "A11" < "A12" < "A2" < ... < "A9" < "B1"
WellStrKey(id) ==
  LET row == CHOOSE i \in 1..8 : WELL_ROWS[i] = id[1]
      c == id[2]
  IN row * 100 + (IF c = 1 THEN 1 ELSE IF c >= 10 THEN c - 8 ELSE c + 3)

RECURSIVE sorted_well_cycles(_)
sorted_well_cycles(S) ==
  IF S = {} THEN <<>>
  ELSE LET m == CHOOSE x \in S : \A y \in S :
                  \/ WellStrKey(x[1]) < WellStrKey(y[1])
                  \/ (x[1] = y[1] /\ x[2] <= y[2])
       IN <<m>> \o sorted_well_cycles(S \ {m})

\* parse_quantstudio_amplification
parse_quantstudio_amplification(f) ==
  LET cols == col_names(f)
      tg == identify_targets(f.rows)
      numbered == rn_rows(f.rows)
  IN IF ~f.header_found THEN Fail("ValueError: no header row")
     ELSE IF ~({"WELL", "CYCLE", "TARGET NAME", "RN"} \subseteq cols)
     THEN Fail("ValueError: missing required columns")
     ELSE IF tg.fam = "" \/ tg.allele2 = ""
     THEN Fail("ValueError: could not identify allele targets")
     ELSE IF \E i \in DOMAIN numbered : ~WellNumOk(numbered[i].well[1])
     THEN Fail("IndexError")
     ELSE
     LET stored == rn_rows(f.rows)
         well_cycles == {<<well_num_to_id(stored[i].well[1]), stored[i].cycle[1]>> :
                           i \in DOMAIN stored}
         order == sorted_well_cycles(well_cycles)
         data == [i \in 1..Len(order) |->
                    WellCycleData(order[i][1], order[i][2],
                                  rn_get(stored, order[i][1], order[i][2], tg.fam),
                                  rn_get(stored, order[i][1], order[i][2], tg.allele2),
                                  None)]
         cycles == {data[i].cycle : i \in DOMAIN data}
     IN [status |-> "ok",
         instrument |-> "QuantStudio 3",
         allele2_dye |-> tg.dye,
         wells |-> {data[i].well : i \in DOMAIN data},
         cycles |-> cycles,
         data |-> data,
         has_rox |-> FALSE,
         data_windows |-> qs_windows(cycles)]

(***************************************************************************)
(* Input files of the .xls model                                           *)
(***************************************************************************)
QsRow(well, cycle, fam, allele2, rox, target, rn) ==
  [well |-> well, cycle |-> cycle, fam |-> fam, allele2 |-> allele2, rox |-> rox,
   target |-> target, rn |-> rn]

QsFile(filename, headers, rows) ==
  [ext |-> ".xls", filename |-> filename, header_found |-> TRUE, headers |-> headers,
   rows |-> rows]

McHeaders == <<"Well", "Cycle", "VIC", "ROX", "FAM">>

AmpHeaders == <<"Well", "Well Position", "Cycle", "Target Name", "Rn", "Delta Rn">>

QsHeaderLists ==
  {McHeaders, AmpHeaders,
   <<"Well", "Cycle", "FAM", "HEX">>,
   <<"Well", "Cycle", "FAM", "HEX", "VIC">>,
   <<"Well", "Cycle", "FAM">>,
   <<"Well", "FAM", "VIC">>,
   <<"Well", "Cycle", "Target Name", "Delta Rn">>,
   <<"Well", "Cycle", "Target Name">>,
   <<"Well", "X1-M1">>,
   <<"Well", "Call", "Quality(%)">>,
   <<"Well", "Allele1 Reporter">>,
   <<"Well", "Sample">>}

QsWellNums == {0, 1, 96, 97}

QsCycleNums == {1, 2, 3}

McRow(well, cycle) == QsRow(well, cycle, Some(7), Some(8), Some(9), "", None)

\* Multicomponent Data: every well number and native cycle number
QsRowStudy ==
  {QsFile("multicomponent data.xls", McHeaders, rows) :
     rows \in SeqsUpTo({McRow(Some(w), Some(c)) : w \in QsWellNums, c \in QsCycleNums}
                         \cup {McRow(None, Some(1))}, MaxRows)}

\* Multicomponent Data: every kind of cell, under every header row
QsCellStudy ==
  {QsFile("export.xls", h, rows) :
     h \in QsHeaderLists,
     rows \in SeqsUpTo([well : {Some(1)}, cycle : {Some(1), None}, fam : {Some(7), None},
                        allele2 : {Some(8), None}, rox : {Some(9), None},
                        target : {""}, rn : {None}], 1)}

AmpRow(well, cycle, target, rn) == QsRow(well, cycle, None, None, None, target, rn)

\* Amplification Data: two rows per well and cycle
QsAmpStudy ==
  {QsFile("amplification data.xls", AmpHeaders, rows) :
     rows \in SeqsUpTo({AmpRow(Some(w), Some(c), t, Some(5)) :
                          w \in {1, 2}, c \in {1, 3}, t \in {"Allele 1", "Allele 2"}},
                       MaxRows)}

\* Amplification Data: every target name, under every header row
QsTargetStudy ==
  {QsFile("export.xls", AmpHeaders, rows) :
     rows \in SeqsUpTo({AmpRow(Some(1), Some(1), t, Some(5)) : t \in Range(TargetOrder) \cup {""}}
                         \cup {AmpRow(Some(97), Some(1), "Allele 1", None),
                               AmpRow(Some(97), Some(1), "Allele 2", Some(5))}, 2)}
  \cup {QsFile(n, h, <<AmpRow(Some(1), Some(1), "Allele 1", Some(5)),
                       AmpRow(Some(1), Some(1), "Allele 2", Some(6))>>) :
          n \in {"export.xls", "results.xls", "raw data.xls", "sample setup.xls"},
          h \in QsHeaderLists}

QsFiles ==
  QsRowStudy \cup QsCellStudy \cup QsAmpStudy \cup QsTargetStudy
  \cup {[QsFile("export.xls", <<>>, <<>>) EXCEPT !.header_found = FALSE]}

(***************************************************************************)
(* Repair of the .xlsx packaging (xlsx_fixer.py)                           *)
(*                                                                         *)
(* An archive is the set of its entry names.  f.is_zip says whether the    *)
(* file is a ZIP archive at all, f.members_ok whether the data of every    *)
(* entry can be read (no entry is truncated or fails its checksum).        *)
(***************************************************************************)
\* name.replace("\\", "/") on the entry names of the model
Slashed(n) ==
  CASE n = "xl\\workbook.xml" -> "xl/workbook.xml"
    [] n = "xl\\sharedStrings.xml" -> "xl/sharedStrings.xml"
    [] n = "xl\\sharedstrings.xml" -> "xl/sharedstrings.xml"
    [] OTHER -> n

\* name.lower() on the entry names of the model
Lower(n) ==
  CASE n \in {"[Content_Types].xml", "[CONTENT_TYPES].XML"} -> "[content_types].xml"
    [] n \in {"xl/sharedStrings.xml", "xl/SharedStrings.xml"} -> "xl/sharedstrings.xml"
    [] n = "xl\\sharedStrings.xml" -> "xl\\sharedstrings.xml"
    [] OTHER -> n

\* needs_fixing
needs_fixing(f) ==
  /\ f.is_zip
  /\ \/ \E n \in f.names : Slashed(n) # n
     \/ \E n \in f.names : Lower(n) = "[content_types].xml" /\ n # "[Content_Types].xml"

\* fix_cfx_xlsx, lines 26-32: the names of the entries of the repaired copy
fix_cfx_xlsx(names) ==
  LET fixed(n) ==
        LET new_name == Slashed(n)
        IN IF Lower(new_name) = "[content_types].xml" THEN "[Content_Types].xml"
           ELSE IF new_name = "xl/sharedstrings.xml" THEN "xl/sharedStrings.xml"
           ELSE new_name
  IN {fixed(n) : n \in names}

\* openpyxl.load_workbook(work_path): the reader finds the parts of the
\* package under their exact names
load_workbook_ok(f, names) ==
  /\ f.is_zip
  /\ f.members_ok
  /\ {"[Content_Types].xml", "xl/workbook.xml", "xl/sharedStrings.xml"} \subseteq names

(***************************************************************************)
(* CFX Opus .xlsx parsers (cfx_opus.py)                                    *)
(*                                                                         *)
(* A well string is the pair <<what precedes the column number, column     *)
(* number>>: "A1" is <<"A", 1>>, "A01" is <<"A0", 1>>, "a1" is <<"a", 1>>. *)
(* f.sheets is the workbook: each sheet has its name, headers (the text of *)
(* the first cells of row 1, "" for an empty cell), plate_view (some       *)
(* header is a number 1..12), wells (the well strings that follow the      *)
(* headers in row 1) and rows.  A row of a wide sheet is [cycle, vals],    *)
(* vals under the well headers; a row of an End Point sheet is [well,      *)
(* rfu]; a row of the ADSheet is [well, rfu1, rfu2, sample].  A numeric    *)
(* cell is Some(n), any other cell None; a sample is "" when the cell is   *)
(* empty.  All the dye sheets of a workbook have the layout of its FAM     *)
(* sheet.                                                                  *)
(***************************************************************************)
\* well[0]
well_first(id) ==
  CASE id[1] \in {"A", "A0"} -> "A"
    [] id[1] \in {"B", "B0"} -> "B"
    [] id[1] \in {"a", "a0"} -> "a"
    [] OTHER -> id[1]

\* len(well_str)
well_len(id) ==
  (IF id[1] = well_first(id) THEN 1 ELSE 2) + (IF id[2] >= 10 THEN 2 ELSE 1)

\* lines 196-198 and 250-252: "A01" -> "A1"
strip_zero(id) ==
  IF well_len(id) = 3 /\ id[1] # well_first(id) THEN <<well_first(id), id[2]>> ELSE id

\* the place of a well string among the strings of the model as sorted()
\* compares them: "A01" < "A1" < "A10" < "A2" < "B1" < "a1"
cfx_well_key(id) ==
  LET row == CASE well_first(id) = "A" -> 1 [] well_first(id) = "B" -> 2 [] OTHER -> 9
  IN row * 100 + (IF id[1] = well_first(id) THEN 20 ELSE 0) + (WellStrKey(<<"A", id[2]>>) - 100)

\* sorted() of a set of (well string, cycle) pairs
RECURSIVE cfx_sorted(_)
cfx_sorted(S) ==
  IF S = {} THEN <<>>
  ELSE LET m == CHOOSE x \in S : \A y \in S :
                  \/ cfx_well_key(x[1]) < cfx_well_key(y[1])
                  \/ (x[1] = y[1] /\ x[2] <= y[2])
       IN <<m>> \o cfx_sorted(S \ {m})

\* a dict as the sequence of its assignments [key, val]: its keys, and .get
dict_keys(writes) == {writes[i].key : i \in DOMAIN writes}

dict_get(writes, key, default) ==
  IF key \in dict_keys(writes)
  THEN writes[CHOOSE i \in DOMAIN writes :
                writes[i].key = key /\ \A j \in DOMAIN writes : writes[j].key = key => j <= i].val
  ELSE default

\* wb.sheetnames and wb[name]
sheet_names(f) == {f.sheets[k].name : k \in DOMAIN f.sheets}

sheet(f, name) == f.sheets[CHOOSE k \in DOMAIN f.sheets : f.sheets[k].name = name]

\* the UnifiedData of the CFX parsers
CfxData(allele2_dye, cycles, data, has_rox, sample_names, windows) ==
  [status |-> "ok",
   instrument |-> "CFX Opus",
   allele2_dye |-> allele2_dye,
   wells |-> {data[i].well : i \in DOMAIN data},
   cycles |-> cycles,
   data |-> data,
   has_rox |-> has_rox,
   sample_names |-> sample_names,
   data_windows |-> windows]

\* _parse_dye_sheet
parse_dye_sheet(ws) ==
  LET row_writes(r) ==
        LET cols == SelectSeq([c \in 1..Len(ws.wells) |-> c], LAMBDA c : r.vals[c] # None)
        IN IF r.cycle = None THEN <<>>
           ELSE [k \in 1..Len(cols) |->
                   [key |-> <<ws.wells[cols[k]], r.cycle[1]>>, val |-> r.vals[cols[k]][1]]]
  IN Flatten([k \in 1..Len(ws.rows) |-> row_writes(ws.rows[k])])

\* _parse_workbook
parse_workbook(f) ==
  LET allele2_dye == IF "HEX" \in sheet_names(f) THEN "HEX" ELSE "VIC"
      has_rox == "ROX" \in sheet_names(f)
  IN IF ~({"FAM", allele2_dye} \subseteq sheet_names(f)) THEN Fail("KeyError")
     ELSE
     LET fam_data == parse_dye_sheet(sheet(f, "FAM"))
         allele2_data == parse_dye_sheet(sheet(f, allele2_dye))
         rox_data == IF has_rox THEN parse_dye_sheet(sheet(f, "ROX")) ELSE <<>>
         order == cfx_sorted(dict_keys(fam_data) \cup dict_keys(allele2_data))
         data == [i \in 1..Len(order) |->
                    WellCycleData(order[i][1], order[i][2],
                                  dict_get(fam_data, order[i], 0),
                                  dict_get(allele2_data, order[i], 0),
                                  IF order[i] \in dict_keys(rox_data)
                                  THEN Some(dict_get(rox_data, order[i], 0)) ELSE None)]
     IN CfxData(allele2_dye, {data[i].cycle : i \in DOMAIN data}, data, has_rox, None, <<>>)

\* _open_cfx, and lines 24-32 of parse_cfx_opus: "none", or the exception
\* raised and the repaired copy left behind
open_cfx(f) ==
  LET fixed == needs_fixing(f)
  IN IF fixed /\ ~f.members_ok
     THEN [error |-> "BadZipFile", temp_files |-> {"cfx_opus.fixed_path"}]
     ELSE IF ~load_workbook_ok(f, IF fixed THEN fix_cfx_xlsx(f.names) ELSE f.names)
     THEN [error |-> "load_workbook failed",
           temp_files |-> IF fixed THEN {"cfx_opus.fixed_path"} ELSE {}]
     ELSE [error |-> "none", temp_files |-> {}]

\* parse_cfx_opus.  When load_workbook raises, wb.close() of line 35 raises
\* UnboundLocalError before line 37 removes the copy.
parse_cfx_opus(f) ==
  LET opened == open_cfx(f)
  IN IF opened.error = "BadZipFile" THEN [result |-> Fail("BadZipFile"), temp_files |-> opened.temp_files]
     ELSE IF opened.error # "none"
     THEN [result |-> Fail("UnboundLocalError"), temp_files |-> opened.temp_files]
     ELSE [result |-> parse_workbook(f), temp_files |-> {}]

\* _parse_endpoint_sheet
parse_endpoint_sheet(ws) ==
  LET headers_str == {Upper(ws.headers[i]) : i \in DOMAIN ws.headers}
      kept == SelectSeq(ws.rows, LAMBDA r : r.well # None /\ r.rfu # None)
  IN IF ~({"WELL", "END RFU"} \subseteq headers_str) THEN <<>>
     ELSE [k \in 1..Len(kept) |-> [key |-> strip_zero(kept[k].well[1]), val |-> kept[k].rfu[1]]]

\* parse_cfx_endpoint
parse_cfx_endpoint(f) ==
  LET opened == open_cfx(f)
      allele2_dye == IF "HEX" \in sheet_names(f) THEN "HEX" ELSE "VIC"
      has_rox == "ROX" \in sheet_names(f)
  IN IF opened.error # "none"
     THEN [result |-> Fail(opened.error), temp_files |-> opened.temp_files]
     ELSE IF ~({"FAM", allele2_dye} \subseteq sheet_names(f))
     THEN [result |-> Fail("KeyError"), temp_files |-> {}]
     ELSE
     LET fam_data == parse_endpoint_sheet(sheet(f, "FAM"))
         allele2_data == parse_endpoint_sheet(sheet(f, allele2_dye))
         rox_data == IF has_rox THEN parse_endpoint_sheet(sheet(f, "ROX")) ELSE <<>>
         all_wells == dict_keys(fam_data) \cup dict_keys(allele2_data)
         order == cfx_sorted({<<w, 1>> : w \in all_wells})
         data == [i \in 1..Len(order) |->
                    WellCycleData(order[i][1], 1,
                                  dict_get(fam_data, order[i][1], 0),
                                  dict_get(allele2_data, order[i][1], 0),
                                  IF order[i][1] \in dict_keys(rox_data)
                                  THEN Some(dict_get(rox_data, order[i][1], 0)) ELSE None)]
     IN [result |-> CfxData(allele2_dye, {1}, data, has_rox, None, <<>>), temp_files |-> {}]

\* parse_cfx_allelic
parse_cfx_allelic(f) ==
  LET opened == open_cfx(f)
  IN IF opened.error # "none"
     THEN [result |-> Fail(opened.error), temp_files |-> opened.temp_files]
     ELSE IF "ADSheet" \notin sheet_names(f)
     THEN [result |-> Fail("KeyError"), temp_files |-> {}]
     ELSE
     LET ws == sheet(f, "ADSheet")
         headers_str == {Upper(ws.headers[i]) : i \in DOMAIN ws.headers}
         kept == SelectSeq(ws.rows, LAMBDA r : r.well # None /\ r.rfu1 # None /\ r.rfu2 # None)
         data == [k \in 1..Len(kept) |->
                    WellCycleData(strip_zero(kept[k].well[1]), 1, kept[k].rfu1[1],
                                  kept[k].rfu2[1], None)]
         named == SelectSeq(kept, LAMBDA r : "SAMPLE" \in headers_str /\ r.sample # "")
         sample_names == [k \in 1..Len(named) |->
                            [key |-> strip_zero(named[k].well[1]), val |-> named[k].sample]]
     IN IF ~({"WELL", "RFU1", "RFU2"} \subseteq headers_str)
        THEN [result |-> Fail("ValueError: ADSheet missing required columns"),
              temp_files |-> {}]
        ELSE [result |-> CfxData("HEX", {1}, data, FALSE,
                                 IF sample_names # <<>> THEN Some(sample_names) ELSE None,
                                 <<>>),
              temp_files |-> {}]

\* _identify_cfx_file, lines 289-291: the first key of CFX_KNOWN_FILES the file
\* name contains
cfx_known_file(filename) ==
  CASE filename = "quantification amplification results.xlsx"
         -> "Quantification Amplification Results"
    [] filename = "end point results.xlsx" -> "End Point Results"
    [] filename = "allelic discrimination results.xlsx" -> "Allelic Discrimination Results"
    [] filename = "melt curve plate view results.xlsx" -> "Melt Curve Plate View Results"
    [] OTHER -> "unknown"

\* _identify_cfx_file without the file-name keys of lines 289-291
identify_cfx_file_by_sheets(filename, names) ==
  IF "ADSheet" \in names THEN "Allelic Discrimination Results"
  ELSE IF "ANOVA" \in names THEN "ANOVA Results"
  ELSE IF "Standard Curve Results" \in names THEN "Standard Curve Results"
  ELSE "unknown"

\* _identify_cfx_file
identify_cfx_file(filename, names) ==
  IF cfx_known_file(filename) # "unknown" THEN cfx_known_file(filename)
  ELSE IF "ADSheet" \in names THEN "Allelic Discrimination Results"
  ELSE IF "ANOVA" \in names THEN "ANOVA Results"
  ELSE IF "Standard Curve Results" \in names THEN "Standard Curve Results"
  ELSE "unknown"

\* _raise_cfx_error: the message starts with "This is a '<file_type>' file."
\* unless file_type is "unknown"
raise_cfx_error(file_type) ==
  [status |-> "error", kind |-> "ValueError: not a usable CFX Opus file",
   file_type |-> file_type]

\* _handle_cfx_opus.  The copies of lines 217 and 243 are removed by the
\* finally blocks of lines 232-234 and 274-276; line 217 itself is outside
\* them.  The plate-view test of line 266 and the fall-through of line 271
\* raise the same error.
handle_cfx_opus(f) ==
  LET fixed == needs_fixing(f)
      names == sheet_names(f)
      has_dye_sheets == "FAM" \in names /\ ("HEX" \in names \/ "VIC" \in names)
      wrong_export == [result |-> raise_cfx_error(identify_cfx_file(f.filename, names)),
                       temp_files |-> {}]
  IN IF fixed /\ ~f.members_ok
     THEN [result |-> Fail("BadZipFile"), temp_files |-> {"detector.fixed_path"}]
     ELSE IF ~load_workbook_ok(f, IF fixed THEN fix_cfx_xlsx(f.names) ELSE f.names)
     THEN [result |-> Fail("ValueError: could not read this .xlsx file"), temp_files |-> {}]
     ELSE IF has_dye_sheets
     THEN LET fam_ws == sheet(f, "FAM")
              headers_str == {Upper(fam_ws.headers[i]) : i \in DOMAIN fam_ws.headers}
          IN IF /\ Len(fam_ws.headers) + Len(fam_ws.wells) > 2
                /\ Len(fam_ws.headers) >= 2
                /\ fam_ws.headers[2] = "Cycle"
             THEN parse_cfx_opus(f)
             ELSE IF {"WELL", "END RFU"} \subseteq headers_str THEN parse_cfx_endpoint(f)
             ELSE wrong_export
     ELSE IF "ADSheet" \in names THEN parse_cfx_allelic(f)
     ELSE wrong_export

(***************************************************************************)
(* Input files of the .xlsx model                                          *)
(***************************************************************************)
Sheet(name, headers, wells, rows) ==
  [name |-> name, headers |-> headers, wells |-> wells, rows |-> rows]

GoodNames == {"[Content_Types].xml", "xl/workbook.xml", "xl/sharedStrings.xml"}

CfxFile(filename, names, sheets) ==
  [ext |-> ".xlsx", filename |-> filename, is_zip |-> TRUE, members_ok |-> TRUE,
   names |-> names, sheets |-> sheets]

WideHeaders == <<"", "Cycle">>

EndPointHeaders == <<"", "Well", "Fluor", "End RFU">>

ADSheetHeaders == <<"", "Well", "Sample", "Call", "Type", "RFU1", "RFU2">>

CfxWellStrings == {<<"A", 1>>, <<"A0", 1>>, <<"a", 1>>, <<"A", 10>>, <<"B", 2>>}

WideRow(cycle, v1, v2) == [cycle |-> cycle, vals |-> <<v1, v2>>]

\* one wide workbook of two wells and two cycles
WideSheets ==
  <<Sheet("FAM", WideHeaders, <<<<"A", 1>>, <<"B", 2>>>>,
          <<WideRow(Some(1), Some(7), Some(7)), WideRow(Some(2), Some(7), Some(7))>>),
    Sheet("HEX", WideHeaders, <<<<"A", 1>>, <<"B", 2>>>>,
          <<WideRow(Some(1), Some(8), Some(8)), WideRow(Some(2), Some(8), Some(8))>>)>>

\* every packaging of the archive, readable or not
CfxArchiveStudy ==
  {[CfxFile("export.xlsx", {ct, wbn, ss}, WideSheets)
      EXCEPT !.is_zip = z, !.members_ok = z /\ m] :
     ct \in {"[Content_Types].xml", "[content_types].xml", "[CONTENT_TYPES].XML"},
     wbn \in {"xl/workbook.xml", "xl\\workbook.xml"},
     ss \in {"xl/sharedStrings.xml", "xl/sharedstrings.xml", "xl/SharedStrings.xml",
             "xl\\sharedStrings.xml", "xl\\sharedstrings.xml"},
     z \in BOOLEAN, m \in BOOLEAN}

\* wide workbooks: every well header and every kind of cell
CfxWideStudy ==
  {CfxFile("export.xlsx", GoodNames,
           <<Sheet("FAM", WideHeaders, <<w1, <<"B", 2>>>>, fam_rows),
             Sheet(dye, WideHeaders, <<w1, <<"B", 2>>>>,
                   <<WideRow(Some(1), a, Some(8))>>)>>
           \o (IF rox THEN <<Sheet("ROX", WideHeaders, <<w1>>,
                                   <<[cycle |-> Some(1), vals |-> <<Some(9)>>]>>)>>
               ELSE <<>>)) :
     w1 \in CfxWellStrings,
     fam_rows \in SeqsUpTo({WideRow(c, v, Some(7)) : c \in {Some(1), Some(2), None},
                                                       v \in {Some(7), None}}, MaxSheetRows),
     dye \in {"HEX", "VIC"}, a \in {Some(8), None}, rox \in BOOLEAN}

\* End Point Results workbooks, and workbooks with dye sheets of no known layout
CfxEndPointStudy ==
  {CfxFile(n, GoodNames,
           <<Sheet("FAM", EndPointHeaders, <<>>, fam_rows),
             Sheet("HEX", EndPointHeaders, <<>>, <<[well |-> Some(<<"A", 1>>), rfu |-> a]>>)>>) :
     n \in {"end point results.xlsx", "export.xlsx"},
     fam_rows \in SeqsUpTo([well : {Some(<<"A", 1>>), Some(<<"A0", 1>>), Some(<<"a", 1>>), None},
                            rfu : {Some(7), None}], MaxSheetRows),
     a \in {Some(8), None}}
  \cup {CfxFile(n, GoodNames,
                <<Sheet("FAM", h, <<>>, <<[well |-> Some(<<"A", 1>>), rfu |-> Some(7)]>>),
                  Sheet("HEX", h, <<>>, <<[well |-> Some(<<"A", 1>>), rfu |-> Some(8)]>>)>>) :
          n \in {"end point results.xlsx", "export.xlsx", "melt curve plate view results.xlsx"},
          h \in {<<"", "Well", "Fluor">>, <<"", "Content">>}}

\* Allelic Discrimination Results workbooks, and workbooks of other exports
CfxAllelicStudy ==
  {CfxFile("allelic discrimination results.xlsx", GoodNames,
           <<Sheet("ADSheet", ADSheetHeaders, <<>>, rows)>>) :
     rows \in SeqsUpTo([well : {Some(<<"A", 1>>), Some(<<"A0", 1>>), Some(<<"a", 1>>)},
                        rfu1 : {Some(7)}, rfu2 : {Some(8)},
                        sample : {"", "SNP", "Patient 1"}]
                         \cup {[well |-> Some(<<"A", 1>>), rfu1 |-> Some(7), rfu2 |-> None,
                                sample |-> "SNP"]}, MaxSheetRows)}
  \cup {CfxFile(n, GoodNames,
                <<Sheet("ADSheet", h, <<>>,
                        <<[well |-> Some(<<"A", 1>>), rfu1 |-> Some(7), rfu2 |-> Some(8),
                           sample |-> s]>>)>>) :
          n \in {"allelic discrimination results.xlsx", "export.xlsx"},
          h \in {ADSheetHeaders, <<"", "Well", "RFU1", "RFU2">>, <<"", "Well", "Sample", "RFU1">>},
          s \in {"SNP", "Patient 1"}}
  \cup {CfxFile(n, GoodNames, <<Sheet(s, <<"", "Well", "Cq">>, <<>>, <<>>)>>) :
          n \in {"export.xlsx", "end point results.xlsx"},
          s \in {"Data", "ANOVA", "Standard Curve Results"}}

CfxFiles == CfxArchiveStudy \cup CfxWideStudy \cup CfxEndPointStudy \cup CfxAllelicStudy

(***************************************************************************)
(* CFX Opus XML export archives (cfx_xml_parser.py)                        *)
(*                                                                         *)
(* f.names are the file names in the archive.  f.adsheet is the rows of    *)
(* the ADSheet file, each [well, sample, rfu1, rfu2] with sample "" when   *)
(* the element is absent or empty.  f.amp_fam, f.amp_allele2 and f.amp_rox *)
(* are the amplification files: [dye, wells, rows], wells the well tags of *)
(* the first row and each row [cycle, vals], vals under those tags, None   *)
(* where the row lacks the tag.  f.ntc is the set of well strings the End  *)
(* Point files mark NTC.                                                   *)
(***************************************************************************)
\* _find_xml_files, lines 90-93: the key of _PATTERNS a file name ends with
xml_key(name) ==
  CASE name = "Quantification Amplification Results_FAM.xml" -> "amplification_fam"
    [] name = "Quantification Amplification Results_HEX.xml" -> "amplification_hex"
    [] name = "Quantification Amplification Results_VIC.xml" -> "amplification_vic"
    [] name = "Quantification Amplification Results_ROX.xml" -> "amplification_rox"
    [] name = "Allelic Discrimination Results_ADSheet.xml" -> "adsheet"
    [] name = "End Point Results_FAM.xml" -> "endpoint_fam"
    [] name = "End Point Results_HEX.xml" -> "endpoint_hex"
    [] name = "End Point Results_VIC.xml" -> "endpoint_vic"
    [] name = "End Point Results_ROX.xml" -> "endpoint_rox"
    [] OTHER -> "none"

\* _find_xml_files, as the set of the keys found
find_xml_files(names) == {xml_key(n) : n \in names} \ {"none"}

\* _normalize_well
normalize_well(id) == <<well_first(id), id[2]>>

\* sorted(keys, key=_well_sort_key) on a set of well tags
RECURSIVE wells_by_sort_key(_)
wells_by_sort_key(S) ==
  IF S = {} THEN <<>>
  ELSE LET key(id) == (IF well_first(id) = "A" THEN 0 ELSE IF well_first(id) = "B" THEN 1 ELSE 32)
                        * 100 + id[2]
           m == CHOOSE x \in S : \A y \in S : key(x) <= key(y)
       IN <<m>> \o wells_by_sort_key(S \ {m})

\* _parse_amplification_xml, lines 117-120: the keys of data
amp_wells(amp) == IF amp.rows = <<>> THEN {} ELSE Range(amp.wells)

\* _parse_amplification_xml: the values of one well, in the order of the rows
amp_values(amp, well) ==
  LET c == CHOOSE k \in DOMAIN amp.wells : amp.wells[k] = well
  IN [i \in 1..Len(amp.rows) |-> amp.rows[i].vals[c][1]]

\* _parse_amplification_xml, lines 122-124: elem is None when a row lacks a tag
amp_error(amp) == \E i \in DOMAIN amp.rows : \E c \in DOMAIN amp.wells : amp.rows[i].vals[c] = None

\* the sample_names argument of lines 228, 282 and 315
meaningful_names(sample_names) ==
  IF \E i \in DOMAIN sample_names : sample_names[i].val # "" /\ sample_names[i].val # "SNP"
  THEN Some(sample_names) ELSE None

\* _assemble_tier1
assemble_tier1(f, xml_files) ==
  LET has_rox_file == "amplification_rox" \in xml_files
      cycles == SortSeq([i \in 1..Len(f.amp_fam.rows) |-> f.amp_fam.rows[i].cycle],
                        LAMBDA a, b : a < b)
      wells == wells_by_sort_key(amp_wells(f.amp_fam))
      n == Len(cycles)
      in_allele2(w) == w \in amp_wells(f.amp_allele2)
      in_rox(w) == has_rox_file /\ w \in amp_wells(f.amp_rox)
      reading(w, i) ==
        WellCycleData(w, cycles[i], amp_values(f.amp_fam, w)[i],
                      IF in_allele2(w) THEN amp_values(f.amp_allele2, w)[i] ELSE 0,
                      IF in_rox(w) THEN Some(amp_values(f.amp_rox, w)[i]) ELSE None)
      data == Flatten([k \in 1..Len(wells) |-> [i \in 1..n |-> reading(wells[k], i)]])
      sample_names == [k \in 1..Len(f.adsheet) |->
                         [key |-> normalize_well(f.adsheet[k].well), val |-> f.adsheet[k].sample]]
  IN IF amp_error(f.amp_fam) \/ amp_error(f.amp_allele2) \/ (has_rox_file /\ amp_error(f.amp_rox))
     THEN Fail("AttributeError")
     ELSE IF /\ wells # <<>>
             /\ \/ \E w \in Range(wells) : in_allele2(w) /\ Len(f.amp_allele2.rows) < n
                \/ \E w \in Range(wells) : in_rox(w) /\ Len(f.amp_rox.rows) < n
     THEN Fail("IndexError")
     ELSE CfxData(f.amp_allele2.dye, Range(cycles), data,
                  has_rox_file /\ amp_wells(f.amp_rox) # {},
                  meaningful_names(sample_names),
                  IF n > 0 THEN <<DataWindow("Amplification", cycles[1], cycles[n])>> ELSE <<>>)

\* _assemble_tier2 and _assemble_tier3: the data and the names of the ADSheet rows
adsheet_data(rows) ==
  [k \in 1..Len(rows) |->
     WellCycleData(normalize_well(rows[k].well), 1, rows[k].rfu1, rows[k].rfu2, None)]

adsheet_names(rows, ntc_wells) ==
  LET named == SelectSeq(rows, LAMBDA r : r.sample # "")
  IN [k \in 1..Len(named) |->
        [key |-> normalize_well(named[k].well),
         val |-> IF normalize_well(named[k].well) \in ntc_wells THEN "NTC"
                 ELSE named[k].sample]]

\* _assemble_tier2
assemble_tier2(f, xml_files) ==
  CfxData(IF "endpoint_vic" \in xml_files THEN "VIC" ELSE "HEX", {1}, adsheet_data(f.adsheet),
          FALSE,
          meaningful_names(adsheet_names(f.adsheet, {normalize_well(w) : w \in f.ntc})),
          <<DataWindow("End Point", 1, 1)>>)

\* _assemble_tier3
assemble_tier3(f) ==
  CfxData("HEX", {1}, adsheet_data(f.adsheet), FALSE,
          meaningful_names(adsheet_names(f.adsheet, {})),
          <<DataWindow("End Point", 1, 1)>>)

\* parse_cfx_xml_zip with the End Point files looked at before the
\* amplification files
parse_cfx_xml_zip_endpoint_first(f) ==
  LET xml_files == find_xml_files(f.names)
      result_of ==
        IF ~f.members_ok THEN Fail("BadZipFile")
        ELSE IF "adsheet" \notin xml_files THEN Fail("ValueError: no ADSheet.xml in the ZIP")
        ELSE IF xml_files \cap {"endpoint_fam", "endpoint_hex", "endpoint_vic", "endpoint_rox"} # {}
        THEN assemble_tier2(f, xml_files)
        ELSE IF /\ "amplification_fam" \in xml_files
                /\ xml_files \cap {"amplification_hex", "amplification_vic"} # {}
        THEN assemble_tier1(f, xml_files)
        ELSE assemble_tier3(f)
  IN [result |-> result_of, temp_files |-> {}]

\* parse_cfx_xml_zip.  The extraction directory of line 45 is removed by the
\* finally block of lines 74-77 on every path.
parse_cfx_xml_zip(f) ==
  LET xml_files == find_xml_files(f.names)
      result_of ==
        IF ~f.members_ok THEN Fail("BadZipFile")
        ELSE IF "adsheet" \notin xml_files THEN Fail("ValueError: no ADSheet.xml in the ZIP")
        ELSE IF /\ "amplification_fam" \in xml_files
                /\ xml_files \cap {"amplification_hex", "amplification_vic"} # {}
        THEN assemble_tier1(f, xml_files)
        ELSE IF xml_files \cap {"endpoint_fam", "endpoint_hex", "endpoint_vic", "endpoint_rox"} # {}
        THEN assemble_tier2(f, xml_files)
        ELSE assemble_tier3(f)
  IN [result |-> result_of, temp_files |-> {}]

\* _handle_zip, lines 95-100: n.endswith("_ADSheet.xml") or ... "_VIC.xml"
has_cfx_xml(names) ==
  \E n \in names : \/ xml_key(n) \in {"adsheet", "amplification_fam", "amplification_hex",
                                      "amplification_vic", "endpoint_fam", "endpoint_hex",
                                      "endpoint_vic"}
                   \/ n = "Run1_ADSheet.xml"

\* _handle_zip
handle_zip(f) ==
  IF ~f.is_zip THEN [result |-> Fail("ValueError: corrupted .zip"), temp_files |-> {}]
  ELSE IF ~has_cfx_xml(f.names)
  THEN [result |-> Fail("ValueError: no recognized CFX Opus XML exports"), temp_files |-> {}]
  ELSE parse_cfx_xml_zip(f)

(***************************************************************************)
(* Input files of the .zip model                                           *)
(***************************************************************************)
Amp(dye, wells, rows) == [dye |-> dye, wells |-> wells, rows |-> rows]

AdRow(well, sample) == [well |-> well, sample |-> sample, rfu1 |-> 7, rfu2 |-> 8]

ZipFile(names, adsheet, amp_fam, amp_allele2, ntc) ==
  [ext |-> ".zip", filename |-> "export.zip", is_zip |-> TRUE, members_ok |-> TRUE,
   names |-> names, adsheet |-> adsheet, amp_fam |-> amp_fam, amp_allele2 |-> amp_allele2,
   amp_rox |-> Amp("ROX", <<<<"A", 1>>>>, <<[cycle |-> 1, vals |-> <<Some(9)>>]>>),
   ntc |-> ntc]

XmlNames ==
  {"Quantification Amplification Results_FAM.xml", "Quantification Amplification Results_HEX.xml",
   "Quantification Amplification Results_VIC.xml", "Quantification Amplification Results_ROX.xml",
   "Allelic Discrimination Results_ADSheet.xml", "End Point Results_FAM.xml",
   "End Point Results_VIC.xml", "End Point Results_ROX.xml", "Run1_ADSheet.xml", "notes.txt"}

StdAmp(dye, v) ==
  Amp(dye, <<<<"A", 1>>, <<"B", 2>>>>,
      <<[cycle |-> 1, vals |-> <<Some(v), Some(v)>>], [cycle |-> 2, vals |-> <<Some(v), Some(v)>>]>>)

\* every set of files in the archive, around standard contents
ZipNamesStudy ==
  {[ZipFile(names, <<AdRow(<<"A0", 1>>, "Patient 1")>>, StdAmp("FAM", 7), StdAmp("HEX", 8), {})
      EXCEPT !.is_zip = z, !.members_ok = z /\ m] :
     names \in SUBSET XmlNames, z \in BOOLEAN, m \in BOOLEAN}

\* ADSheet rows of every well string and sample name, alone and with End Point files
ZipAdsheetStudy ==
  {ZipFile({"Allelic Discrimination Results_ADSheet.xml"} \cup more, rows,
           StdAmp("FAM", 7), StdAmp("HEX", 8), ntc) :
     more \in {{}, {"End Point Results_FAM.xml"}},
     rows \in SeqsUpTo({AdRow(w, s) : w \in {<<"A", 1>>, <<"A0", 1>>, <<"a", 1>>, <<"B0", 2>>},
                                      s \in {"", "SNP", "Patient 1"}}, MaxSheetRows),
     ntc \in {{}, {<<"A0", 1>>}}}

\* amplification files of every shape
ZipAmpStudy ==
  {ZipFile({"Allelic Discrimination Results_ADSheet.xml",
            "Quantification Amplification Results_FAM.xml",
            IF dye = "HEX" THEN "Quantification Amplification Results_HEX.xml"
            ELSE "Quantification Amplification Results_VIC.xml"} \cup more,
           <<AdRow(<<"A0", 1>>, s)>>, Amp("FAM", <<<<"A", 1>>, <<"B", 2>>>>, fam_rows),
           Amp(dye, a2_wells, a2_rows), {}) :
     dye \in {"HEX", "VIC"},
     more \in {{}, {"Quantification Amplification Results_ROX.xml"}},
     s \in {"SNP", "Patient 1"},
     fam_rows \in SeqsUpTo([cycle : {1, 2}, vals : {<<Some(7), Some(7)>>}], MaxSheetRows),
     a2_wells \in {<<<<"A", 1>>, <<"B", 2>>>>, <<<<"A", 1>>>>},
     a2_rows \in {<<>>, <<[cycle |-> 1, vals |-> <<Some(8), Some(8)>>]>>,
                  <<[cycle |-> 1, vals |-> <<Some(8), Some(8)>>],
                    [cycle |-> 2, vals |-> <<Some(8), None>>]>>,
                  <<[cycle |-> 1, vals |-> <<Some(8), Some(8)>>],
                    [cycle |-> 2, vals |-> <<Some(8), Some(8)>>]>>}}

ZipFiles == ZipNamesStudy \cup ZipAdsheetStudy \cup ZipAmpStudy

(***************************************************************************)
(* The format detector (detector.py)                                       *)
(***************************************************************************)
handle_eds(f) ==
  IF ~f.is_zip THEN Fail("ValueError: corrupted .eds") ELSE parse_eds(f)

\* _identify_qs_file, lines 174-176: the first key of QS_KNOWN_FILES the file
\* name contains
qs_known_file(filename) ==
  CASE filename = "multicomponent data.xls" -> "Multicomponent Data"
    [] filename = "amplification data.xls" -> "Amplification Data"
    [] filename = "raw data.xls" -> "Raw Data"
    [] filename = "results.xls" -> "Results"
    [] filename = "sample setup.xls" -> "Sample Setup"
    [] OTHER -> "unknown"

\* _identify_qs_file
identify_qs_file(filename, headers) ==
  IF "X1-M1" \in headers \/ "X2-M2" \in headers THEN "Raw Data"
  ELSE IF "CALL" \in headers /\ ("ALLELE1 DELTA RN" \in headers \/ "QUALITY(%)" \in headers)
  THEN "Results"
  ELSE IF "ALLELE1 REPORTER" \in headers
          \/ ("SNP ASSAY NAME" \in headers /\ "CALL" \notin headers)
  THEN "Sample Setup"
  ELSE qs_known_file(filename)

\* _handle_quantstudio
handle_quantstudio(f) ==
  LET headers_upper == col_names(f)
      has_fam == "FAM" \in headers_upper
      has_allele2 == "VIC" \in headers_upper \/ "HEX" \in headers_upper
      has_cycle == "CYCLE" \in headers_upper
      has_target == "TARGET NAME" \in headers_upper
      has_rn == "RN" \in headers_upper \/ "DELTA RN" \in headers_upper
  IN IF ~f.header_found THEN Fail("ValueError: not a QuantStudio data file")
     ELSE IF has_fam /\ has_allele2 /\ has_cycle THEN parse_quantstudio(f)
     ELSE IF has_target /\ has_rn /\ has_cycle THEN parse_quantstudio_amplification(f)
     ELSE [status |-> "error", kind |-> "ValueError: not a usable QuantStudio file",
           file_type |-> identify_qs_file(f.filename, headers_upper)]

\* detect_and_parse, lines 51-52
HandleEds ==
  /\ entry = "detect_and_parse"
  /\ pc = "start"
  /\ file.ext = ".eds"
  /\ result' = handle_eds(file)
  /\ pc' = "done"
  /\ UNCHANGED <<concVars, entry, file, pcrdLocals, temp_files>>

\* detect_and_parse, lines 53-58
RejectPcrd ==
  /\ entry = "detect_and_parse"
  /\ pc = "start"
  /\ file.ext = ".pcrd"
  /\ result' = Fail("ValueError: .pcrd files are password-encrypted")
  /\ pc' = "done"
  /\ UNCHANGED <<concVars, entry, file, pcrdLocals, temp_files>>

\* detect_and_parse, lines 59-60
HandleQuantstudio ==
  /\ entry = "detect_and_parse"
  /\ pc = "start"
  /\ file.ext = ".xls"
  /\ result' = handle_quantstudio(file)
  /\ pc' = "done"
  /\ UNCHANGED <<concVars, entry, file, pcrdLocals, temp_files>>

\* detect_and_parse, lines 63-68
UnsupportedExtension ==
  /\ entry = "detect_and_parse"
  /\ pc = "start"
  /\ file.ext \notin {".zip", ".eds", ".pcrd", ".xls", ".xlsx"}
  /\ result' = Fail("ValueError: unsupported file extension")
  /\ pc' = "done"
  /\ UNCHANGED <<concVars, entry, file, pcrdLocals, temp_files>>

\* detect_and_parse, lines 61-62
HandleCfxOpus ==
  /\ entry = "detect_and_parse"
  /\ pc = "start"
  /\ file.ext = ".xlsx"
  /\ result' = handle_cfx_opus(file).result
  /\ temp_files' = temp_files \cup handle_cfx_opus(file).temp_files
  /\ pc' = "done"
  /\ UNCHANGED <<concVars, entry, file, pcrdLocals>>

\* detect_and_parse, lines 49-50
HandleZip ==
  /\ entry = "detect_and_parse"
  /\ pc = "start"
  /\ file.ext = ".zip"
  /\ result' = handle_zip(file).result
  /\ temp_files' = temp_files \cup handle_zip(file).temp_files
  /\ pc' = "done"
  /\ UNCHANGED <<concVars, entry, file, pcrdLocals>>

\* parse_pcrd, lines 43-72: up to the plate reads
PcrdParseReads ==
  /\ entry = "parse_pcrd"
  /\ pc = "start"
  /\ LET err == pcrd_setup_error(file)
         got == parse_plate_reads(file.reads, parse_dye_layers(file.layers).channel_map,
                                  file.assigned)
     IN IF err # "none"
        THEN /\ result' = Fail(err)
             /\ pc' = "done"
             /\ UNCHANGED plate_reads
        ELSE IF got.error # "none"
        THEN /\ result' = Fail(got.error)
             /\ pc' = "done"
             /\ UNCHANGED plate_reads
        ELSE IF got.reads = <<>>
        THEN /\ result' = Fail("ValueError: no fluorescence data")
             /\ pc' = "done"
             /\ UNCHANGED plate_reads
        ELSE /\ plate_reads' = got.reads
             /\ pc' = "reads"
             /\ UNCHANGED result
  /\ UNCHANGED <<concVars, entry, file, cycle_data, data_windows, temp_files>>

\* parse_pcrd, line 75
PcrdClassify ==
  /\ entry = "parse_pcrd"
  /\ pc = "reads"
  /\ LET got == classify_reads_into_windows(plate_reads)
     IN /\ data_windows' = got.windows
        /\ cycle_data' = got.cycle_data
  /\ pc' = "classified"
  /\ UNCHANGED <<concVars, entry, file, plate_reads, result, temp_files>>

\* parse_pcrd, line 78.  Each cycle_data entry holds the wells dict of its plate
\* read itself (line 471, line 490), so the subtraction in place shows in
\* plate_reads too.
PcrdSubtractBaseline ==
  /\ entry = "parse_pcrd"
  /\ pc = "classified"
  /\ cycle_data' = subtract_baseline(cycle_data, data_windows)
  /\ LET order == read_order(plate_reads, step_list(plate_reads))
     IN plate_reads' =
          [k \in 1..Len(plate_reads) |->
             [plate_reads[k] EXCEPT
                !.wells = cycle_data'[CHOOSE c \in 1..Len(order) : order[c] = k].wells]]
  /\ pc' = "baselined"
  /\ UNCHANGED <<concVars, entry, file, data_windows, result, temp_files>>

\* parse_pcrd, lines 80-115
PcrdBuild ==
  /\ entry = "parse_pcrd"
  /\ pc = "baselined"
  /\ LET data == pcrd_data(cycle_data)
         setup == parse_dye_layers(file.layers)
     IN result' = [status |-> "ok",
                   instrument |-> "CFX Opus (raw)",
                   allele2_dye |-> setup.allele2_dye,
                   wells |-> {data[i].well : i \in DOMAIN data},
                   cycles |-> {data[i].cycle : i \in DOMAIN data},
                   data |-> data,
                   has_rox |-> setup.has_rox,
                   protocol_steps |-> pcrd_parse_protocol(file.protocol).steps,
                   data_windows |-> data_windows]
  /\ pc' = "done"
  /\ UNCHANGED <<concVars, entry, file, pcrdLocals, temp_files>>

NoLocals ==
  /\ plate_reads = <<>>
  /\ cycle_data = <<>>
  /\ data_windows = <<>>
  /\ temp_files = {}
  /\ calls = <<>>
  /\ tmp_dir = <<>>

InitEds ==
  /\ entry = "detect_and_parse"
  /\ file \in EdsFiles
  /\ pc = "start"
  /\ NoLocals
  /\ result = NoResult

NextEds == HandleEds

SpecEds == InitEds /\ [][NextEds]_vars

InitPcrd ==
  /\ entry = "parse_pcrd"
  /\ file \in PcrdFiles
  /\ pc = "start"
  /\ NoLocals
  /\ result = NoResult

NextPcrd ==
  \/ PcrdParseReads
  \/ PcrdClassify
  \/ PcrdSubtractBaseline
  \/ PcrdBuild

SpecPcrd == InitPcrd /\ [][NextPcrd]_vars

\* the files given to detect_and_parse
DetectFiles ==
  EdsStageStudy \cup QsFiles \cup PcrdLayerStudy
  \cup {E2EFile, [ext |-> ".csv"], [ext |-> ".txt"], [ext |-> ""]}
  \cup {f \in EdsWellStudy : Cardinality(DOMAIN f.wells) = MaxWells}
  \cup {f \in PcrdFiles : ~f.has_key}

InitDetect ==
  /\ entry = "detect_and_parse"
  /\ file \in DetectFiles
  /\ pc = "start"
  /\ NoLocals
  /\ result = NoResult

NextDetect ==
  \/ HandleEds
  \/ RejectPcrd
  \/ HandleQuantstudio
  \/ UnsupportedExtension

SpecDetect == InitDetect /\ [][NextDetect]_vars

InitCfx ==
  /\ entry = "detect_and_parse"
  /\ file \in CfxFiles \cup ZipFiles
  /\ pc = "start"
  /\ NoLocals
  /\ result = NoResult

NextCfx ==
  \/ HandleCfxOpus
  \/ HandleZip

SpecCfx == InitCfx /\ [][NextCfx]_vars

\* .pcrd files with and without PCRD_PASSWORD set, whatever the archive is
PcrdKeyStudy ==
  {[PcrdFile(StdLayers, {0}, <<PlateRead(1, StdHeader, 1000)>>)
      EXCEPT !.has_key = k, !.is_zip = z, !.entries = IF z THEN e ELSE 0, !.rows = r] :
     k \in BOOLEAN, z \in BOOLEAN, e \in {0, 1}, r \in {8, 16}}
  \cup {[f EXCEPT !.has_key = k] : f \in PcrdHeaderStudy, k \in BOOLEAN}

\* files of the other formats, with and without PCRD_PASSWORD set
OtherKeyStudy ==
  {f @@ [has_key |-> k] :
     f \in EdsStageStudy \cup QsCellStudy \cup CfxArchiveStudy \cup ZipNamesStudy,
     k \in BOOLEAN}

InitKey ==
  /\ \/ entry = "parse_pcrd" /\ file \in PcrdKeyStudy
     \/ entry = "detect_and_parse" /\ file \in OtherKeyStudy
  /\ pc = "start"
  /\ NoLocals
  /\ result = NoResult

NextKey ==
  \/ PcrdParseReads
  \/ PcrdClassify
  \/ PcrdSubtractBaseline
  \/ PcrdBuild
  \/ HandleEds
  \/ HandleQuantstudio
  \/ HandleCfxOpus
  \/ HandleZip

SpecKey == InitKey /\ [][NextKey]_vars

(***************************************************************************)
(* Two calls of detect_and_parse at the same time                          *)
(*                                                                         *)
(* calls[i] is the call on upload i: its file, its position, the paths it  *)
(* got from tempfile.mkstemp / mkdtemp (fixed_path, fixed_path2 and the    *)
(* parser's fixed_path, or the extraction directory), what it remembers of *)
(* the workbook, the exception or value on its way out, and what it        *)
(* returned.  tmp_dir is the system temporary directory: the content of    *)
(* every file and directory in it, by name.  A step of a call is one       *)
(* operation on tmp_dir with the computation that follows it; the test     *)
(* os.path.exists(p) and the os.remove(p) it guards are one step.          *)
(***************************************************************************)
CallIds == {1, 2}

\* names tempfile.mkstemp(suffix=".xlsx", prefix="cfx_fixed_") can return
TmpNames == {"cfx_fixed_a.xlsx", "cfx_fixed_b.xlsx", "cfx_fixed_c.xlsx"}

\* names tempfile.mkdtemp(prefix="cfx_xml_") can return
DirNames == {"cfx_xml_a", "cfx_xml_b"}

\* the empty file made by mkstemp, and what opening a path that does not
\* exist gives: nothing openpyxl can load
NoWorkbook ==
  [ext |-> ".xlsx", filename |-> "", is_zip |-> FALSE, members_ok |-> FALSE, names |-> {},
   sheets |-> <<>>]

\* the empty directory made by mkdtemp, and what os.walk finds under a
\* directory that does not exist
EmptyDir == [ext |-> ".zip", filename |-> "", is_zip |-> TRUE, members_ok |-> TRUE, names |-> {}]

\* fix_cfx_xlsx, lines 23-32: the repaired copy written to fixed_path
repaired_copy(f) == [f EXCEPT !.names = fix_cfx_xlsx(f.names)]

\* what a call finds at the path of its phase k: the upload itself when no
\* copy was made
path_content(c, k) ==
  IF c.paths[k] = None THEN c.file
  ELSE IF c.paths[k][1] \in DOMAIN tmp_dir THEN tmp_dir[c.paths[k][1]]
  ELSE IF c.file.ext = ".zip" THEN EmptyDir ELSE NoWorkbook

\* if path and os.path.exists(path): os.remove(path)
remove_if_exists(dir, path) ==
  IF path = None THEN dir ELSE [n \in DOMAIN dir \ {path[1]} |-> dir[n]]

Call(f) ==
  [file |-> f, pc |-> <<"open", 1>>, paths |-> <<None, None, None>>, sheet_names |-> {},
   parser |-> "none", via_peek |-> FALSE, pending |-> NoResult, result |-> NoResult]

CallDone(c, res) == [c EXCEPT !.pc = <<"done", 0>>, !.result = res]

\* an exception or a value leaves the parser (phase 3): through the finally
\* block of lines 274-276 when the parser was called from inside it
leave_parser(c, res) ==
  IF c.via_peek THEN [c EXCEPT !.pc = <<"finally", 2>>, !.pending = res]
  ELSE CallDone(c, res)

\* lines 216-217, 242-243 of detector.py and 25-26, 118-119 of cfx_opus.py:
\* needs_fixing(file_path), then tempfile.mkstemp of fix_cfx_xlsx line 20
ConcOpen ==
  \E i \in DOMAIN calls, k \in 1..3 :
    LET c == calls[i]
    IN /\ c.file.ext = ".xlsx"
       /\ c.pc = <<"open", k>>
       /\ IF needs_fixing(c.file)
          THEN \E n \in TmpNames \ DOMAIN tmp_dir :
                 /\ tmp_dir' = (n :> NoWorkbook) @@ tmp_dir
                 /\ calls' = [calls EXCEPT ![i] = [c EXCEPT !.pc = <<"fix", k>>,
                                                            !.paths[k] = Some(n)]]
          ELSE /\ calls' = [calls EXCEPT ![i] = [c EXCEPT !.pc = <<"load", k>>]]
               /\ UNCHANGED tmp_dir
       /\ UNCHANGED callVars

\* fix_cfx_xlsx, lines 23-34; no caller has it inside a try block
ConcFix ==
  \E i \in DOMAIN calls, k \in 1..3 :
    LET c == calls[i]
    IN /\ c.pc = <<"fix", k>>
       /\ IF ~c.file.members_ok
          THEN /\ calls' = [calls EXCEPT ![i] = IF k = 3 THEN leave_parser(c, Fail("BadZipFile"))
                                                ELSE CallDone(c, Fail("BadZipFile"))]
               /\ UNCHANGED tmp_dir
          ELSE /\ tmp_dir' = (c.paths[k][1] :> repaired_copy(c.file)) @@ tmp_dir
               /\ calls' = [calls EXCEPT ![i] = [c EXCEPT !.pc = <<"load", k>>]]
       /\ UNCHANGED callVars

\* _handle_cfx_opus, lines 220-225: load_workbook(work_path), wb.sheetnames
ConcLoadDetect ==
  \E i \in DOMAIN calls :
    LET c == calls[i]
        wb == path_content(c, 1)
    IN /\ c.file.ext = ".xlsx"
       /\ c.pc = <<"load", 1>>
       /\ calls' = [calls EXCEPT ![i] =
                      IF load_workbook_ok(wb, wb.names)
                      THEN [c EXCEPT !.pc = <<"finally", 1>>, !.sheet_names = sheet_names(wb)]
                      ELSE [c EXCEPT !.pc = <<"except", 1>>]]
       /\ UNCHANGED <<callVars, tmp_dir>>

\* _handle_cfx_opus, lines 225-231: the except block removes the copy and
\* raises
ConcExcept ==
  \E i \in DOMAIN calls :
    LET c == calls[i]
    IN /\ c.pc = <<"except", 1>>
       /\ tmp_dir' = remove_if_exists(tmp_dir, c.paths[1])
       /\ calls' = [calls EXCEPT ![i] =
                      [c EXCEPT !.pc = <<"finally", 1>>,
                                !.pending = Fail("ValueError: could not read this .xlsx file")]]
       /\ UNCHANGED callVars

\* _handle_cfx_opus, lines 232-236, 278-284: the finally block tests and
\* removes fixed_path (again, after the except block), then the sheet names
\* decide
ConcFinallyDetect ==
  \E i \in DOMAIN calls :
    LET c == calls[i]
        names == c.sheet_names
    IN /\ c.file.ext = ".xlsx"
       /\ c.pc = <<"finally", 1>>
       /\ tmp_dir' = remove_if_exists(tmp_dir, c.paths[1])
       /\ calls' = [calls EXCEPT ![i] =
                      IF c.pending # NoResult THEN CallDone(c, c.pending)
                      ELSE IF "FAM" \in names /\ ("HEX" \in names \/ "VIC" \in names)
                      THEN [c EXCEPT !.pc = <<"open", 2>>]
                      ELSE IF "ADSheet" \in names
                      THEN [c EXCEPT !.pc = <<"open", 3>>, !.parser = "parse_cfx_allelic"]
                      ELSE CallDone(c, raise_cfx_error(identify_cfx_file(c.file.filename, names)))]
       /\ UNCHANGED callVars

\* _handle_cfx_opus, lines 248-272: load_workbook(peek_path), the headers of
\* the FAM sheet
ConcLoadPeek ==
  \E i \in DOMAIN calls :
    LET c == calls[i]
        wb == path_content(c, 2)
        raised(res) == [c EXCEPT !.pc = <<"finally", 2>>, !.pending = res]
        parse(name) == [c EXCEPT !.pc = <<"open", 3>>, !.parser = name, !.via_peek = TRUE]
    IN /\ c.pc = <<"load", 2>>
       /\ calls' = [calls EXCEPT ![i] =
                      IF ~load_workbook_ok(wb, wb.names) THEN raised(Fail("load_workbook failed"))
                      ELSE IF "FAM" \notin sheet_names(wb) THEN raised(Fail("KeyError"))
                      ELSE
                      LET fam_ws == sheet(wb, "FAM")
                          headers_str == {Upper(fam_ws.headers[j]) : j \in DOMAIN fam_ws.headers}
                      IN IF /\ Len(fam_ws.headers) + Len(fam_ws.wells) > 2
                            /\ Len(fam_ws.headers) >= 2
                            /\ fam_ws.headers[2] = "Cycle"
                         THEN parse("parse_cfx_opus")
                         ELSE IF {"WELL", "END RFU"} \subseteq headers_str
                         THEN parse("parse_cfx_endpoint")
                         ELSE raised(raise_cfx_error(
                                       identify_cfx_file(c.file.filename, c.sheet_names)))]
       /\ UNCHANGED <<callVars, tmp_dir>>

\* parse_cfx_opus lines 31-33, parse_cfx_endpoint lines 134-166,
\* parse_cfx_allelic lines 211-273: load_workbook(work_path) and the parse.
\* When load_workbook raises, the copy is not removed.
ConcLoadParse ==
  \E i \in DOMAIN calls :
    LET c == calls[i]
        wb == path_content(c, 3)
        res == CASE c.parser = "parse_cfx_opus" -> parse_cfx_opus(wb).result
                 [] c.parser = "parse_cfx_endpoint" -> parse_cfx_endpoint(wb).result
                 [] OTHER -> parse_cfx_allelic(wb).result
    IN /\ c.pc = <<"load", 3>>
       /\ calls' = [calls EXCEPT ![i] =
                      IF load_workbook_ok(wb, wb.names)
                      THEN [c EXCEPT !.pc = <<"finally", 3>>, !.pending = res]
                      ELSE leave_parser(c, res)]
       /\ UNCHANGED <<callVars, tmp_dir>>

\* the finally blocks of the parsers: cfx_opus.py lines 34-37, 167-170,
\* 274-277
ConcFinallyParse ==
  \E i \in DOMAIN calls :
    LET c == calls[i]
    IN /\ c.pc = <<"finally", 3>>
       /\ tmp_dir' = remove_if_exists(tmp_dir, c.paths[3])
       /\ calls' = [calls EXCEPT ![i] = leave_parser(c, c.pending)]
       /\ UNCHANGED callVars

\* _handle_cfx_opus, lines 274-276
ConcFinallyPeek ==
  \E i \in DOMAIN calls :
    LET c == calls[i]
    IN /\ c.pc = <<"finally", 2>>
       /\ tmp_dir' = remove_if_exists(tmp_dir, c.paths[2])
       /\ calls' = [calls EXCEPT ![i] = CallDone(c, c.pending)]
       /\ UNCHANGED callVars

\* _handle_zip, lines 87-112, and parse_cfx_xml_zip line 45: the checks of
\* the upload, then tempfile.mkdtemp
ConcZipOpen ==
  \E i \in DOMAIN calls :
    LET c == calls[i]
    IN /\ c.file.ext = ".zip"
       /\ c.pc = <<"open", 1>>
       /\ IF ~c.file.is_zip \/ ~has_cfx_xml(c.file.names)
          THEN /\ calls' = [calls EXCEPT ![i] = CallDone(c, handle_zip(c.file).result)]
               /\ UNCHANGED tmp_dir
          ELSE \E d \in DirNames \ DOMAIN tmp_dir :
                 /\ tmp_dir' = (d :> EmptyDir) @@ tmp_dir
                 /\ calls' = [calls EXCEPT ![i] = [c EXCEPT !.pc = <<"extract", 1>>,
                                                            !.paths[1] = Some(d)]]
       /\ UNCHANGED callVars

\* parse_cfx_xml_zip, lines 47-48: zf.extractall(extract_dir)
ConcZipExtract ==
  \E i \in DOMAIN calls :
    LET c == calls[i]
    IN /\ c.pc = <<"extract", 1>>
       /\ IF ~c.file.members_ok
          THEN /\ calls' = [calls EXCEPT ![i] = [c EXCEPT !.pc = <<"rmtree", 1>>,
                                                            !.pending = Fail("BadZipFile")]]
               /\ UNCHANGED tmp_dir
          ELSE /\ tmp_dir' = (c.paths[1][1] :> c.file) @@ tmp_dir
               /\ calls' = [calls EXCEPT ![i] = [c EXCEPT !.pc = <<"parse", 1>>]]
       /\ UNCHANGED callVars

\* parse_cfx_xml_zip, lines 50-72: the files found under extract_dir
ConcZipParse ==
  \E i \in DOMAIN calls :
    LET c == calls[i]
    IN /\ c.pc = <<"parse", 1>>
       /\ calls' = [calls EXCEPT ![i] =
                      [c EXCEPT !.pc = <<"rmtree", 1>>,
                                !.pending = parse_cfx_xml_zip(path_content(c, 1)).result]]
       /\ UNCHANGED <<callVars, tmp_dir>>

\* parse_cfx_xml_zip, lines 74-77: shutil.rmtree(extract_dir, ignore_errors=True)
ConcZipRmtree ==
  \E i \in DOMAIN calls :
    LET c == calls[i]
    IN /\ c.pc = <<"rmtree", 1>>
       /\ tmp_dir' = remove_if_exists(tmp_dir, c.paths[1])
       /\ calls' = [calls EXCEPT ![i] = CallDone(c, c.pending)]
       /\ UNCHANGED callVars

\* uploads of calls that run at the same time: workbooks with the broken
\* packaging (unreadable even when repaired, wide, allelic, end point), one
\* with entries that cannot be read, one that needs no repair, and archives
ConcFiles ==
  {CfxFile("export.xlsx", {"[Content_Types].xml", "xl\\workbook.xml", "xl/SharedStrings.xml"},
           WideSheets),
   CfxFile("export.xlsx", {"[content_types].xml", "xl/workbook.xml", "xl/sharedStrings.xml"},
           WideSheets),
   CfxFile("allelic discrimination results.xlsx",
           {"[content_types].xml", "xl\\workbook.xml", "xl/sharedStrings.xml"},
           <<Sheet("ADSheet", ADSheetHeaders, <<>>,
                   <<[well |-> Some(<<"A0", 1>>), rfu1 |-> Some(7), rfu2 |-> Some(8),
                      sample |-> "Patient 1"]>>)>>),
   CfxFile("end point results.xlsx",
           {"[Content_Types].xml", "xl\\workbook.xml", "xl\\sharedstrings.xml"},
           <<Sheet("FAM", <<"", "Well", "Fluor">>, <<>>, <<>>),
             Sheet("HEX", <<"", "Well", "Fluor">>, <<>>, <<>>)>>),
   [CfxFile("export.xlsx", {"[content_types].xml", "xl/workbook.xml", "xl/sharedStrings.xml"},
            WideSheets) EXCEPT !.members_ok = FALSE],
   CfxFile("export.xlsx", GoodNames, WideSheets),
   ZipFile({"Allelic Discrimination Results_ADSheet.xml"},
           <<AdRow(<<"A0", 1>>, "Patient 1")>>, StdAmp("FAM", 7), StdAmp("HEX", 8), {}),
   [ZipFile({"Allelic Discrimination Results_ADSheet.xml"},
            <<AdRow(<<"A0", 1>>, "Patient 1")>>, StdAmp("FAM", 7), StdAmp("HEX", 8), {})
      EXCEPT !.members_ok = FALSE],
   ZipFile({"notes.txt"}, <<>>, StdAmp("FAM", 7), StdAmp("HEX", 8), {})}

InitConc ==
  /\ entry = "detect_and_parse"
  /\ file = [ext |-> ""]
  /\ pc = "calls"
  /\ plate_reads = <<>>
  /\ cycle_data = <<>>
  /\ data_windows = <<>>
  /\ temp_files = {}
  /\ result = NoResult
  /\ calls \in [CallIds -> {Call(f) : f \in ConcFiles}]
  /\ tmp_dir = <<>>

NextConc ==
  \/ ConcOpen
  \/ ConcFix
  \/ ConcLoadDetect
  \/ ConcExcept
  \/ ConcFinallyDetect
  \/ ConcLoadPeek
  \/ ConcLoadParse
  \/ ConcFinallyParse
  \/ ConcFinallyPeek
  \/ ConcZipOpen
  \/ ConcZipExtract
  \/ ConcZipParse
  \/ ConcZipRmtree

SpecConc == InitConc /\ [][NextConc]_vars

(***************************************************************************)
(* Properties                                                              *)
(***************************************************************************)
\* the cycle numbers of the readings of one well, in the order of data
CyclesOfWell(data, well) ==
  LET own == SelectSeq(data, LAMBDA r : r.well = well)
  IN [i \in 1..Len(own) |-> own[i].cycle]

IsDone == pc = "done" /\ result.status = "ok"

\* the number of cycles the windows cover together
RECURSIVE WindowSum(_)
WindowSum(windows) ==
  IF windows = <<>> THEN 0
  ELSE (Head(windows).end_cycle - Head(windows).start_cycle + 1) + WindowSum(Tail(windows))

\* C1.  In every result, the cycle numbers of each well are exactly 1, 2, ..., N
\* in order, N the sum of the lengths of the DataWindows: no parser passes the
\* cycle counter of the file through.
C1_CyclesAreOneToN ==
  IsDone =>
    LET N == WindowSum(result.data_windows)
    IN \A w \in result.wells : CyclesOfWell(result.data, w) = [i \in 1..N |-> i]

\* C4.  In every result no two readings have the same well id and cycle.
C4_UniqueWellCycle ==
  IsDone =>
    \A i, j \in DOMAIN result.data :
      i # j => <<result.data[i].well, result.data[i].cycle>>
                 # <<result.data[j].well, result.data[j].cycle>>

\* C5.  In every result that has DataWindows, the windows partition the emitted
\* cycles: the first window starts at the smallest emitted cycle, every further
\* window starts one past the end of the one before, the last window ends at
\* the largest emitted cycle, no window is empty, and every cycle of a window
\* has a reading.
C5_WindowsPartitionCycles ==
  (IsDone /\ result.data_windows # <<>>) =>
    LET ws == result.data_windows
        cs == result.cycles
    IN /\ cs # {}
       /\ \A c \in cs : ws[1].start_cycle <= c /\ c <= ws[Len(ws)].end_cycle
       /\ ws[1].start_cycle \in cs
       /\ ws[Len(ws)].end_cycle \in cs
       /\ \A k \in 2..Len(ws) : ws[k].start_cycle = ws[k - 1].end_cycle + 1
       /\ \A k \in DOMAIN ws : ws[k].start_cycle <= ws[k].end_cycle
       /\ \A k \in DOMAIN ws : \A c \in ws[k].start_cycle..ws[k].end_cycle : c \in cs

\* a .pcrd file that parse_pcrd reads to the end
WellFormedPcrd(f) ==
  /\ f.ext = ".pcrd"
  /\ f.has_key
  /\ pcrd_setup_error(f) = "none"
  /\ LET got == parse_plate_reads(f.reads, parse_dye_layers(f.layers).channel_map, f.assigned)
     IN got.error = "none" /\ got.reads # <<>>

\* C7.  detect_and_parse does not fail on a well-formed .pcrd file whose key is
\* set: it returns the result of the raw .pcrd parser.
C7_PcrdAccepted ==
  (entry = "detect_and_parse" /\ pc = "done" /\ WellFormedPcrd(file)) =>
    (result.status = "ok" /\ result.instrument = "CFX Opus (raw)")

IsEdsDone == entry = "detect_and_parse" /\ file.ext = ".eds" /\ pc = "done"

\* the 0-based position in dyes of the dye whose upper-cased name is in names
PositionOf(dyes, names) ==
  IF \E p \in 1..Len(dyes) : Upper(dyes[p]) \in names
  THEN (CHOOSE p \in 1..Len(dyes) : Upper(dyes[p]) \in names) - 1
  ELSE -1

C3_OwnDyeList ==
  (IsEdsDone /\ result.status = "ok") =>
    \A i \in DOMAIN result.data :
      LET r == result.data[i]
          dyes == file.wells[r.fam[1]].dyes
      IN /\ r.fam[2] = PositionOf(dyes, {"FAM"})
         /\ r.allele2[2] = PositionOf(dyes, {"VIC", "HEX"})
         /\ r.rox # None => r.rox[1][2] = PositionOf(dyes, {"ROX"})

\* the number of flags that name (1-based) a stage of the protocol of a kind in K
NamedStages(f, K) ==
  Cardinality({i \in DOMAIN f.flags :
                 f.flags[i] \in DOMAIN f.stages /\ f.stages[f.flags[i]] \in K})

FlagCount(f, v) == Cardinality({i \in DOMAIN f.flags : f.flags[i] = v})

\* the number of cycles of the window called name, 0 when there is none
WindowLen(windows, name) ==
  IF \E i \in DOMAIN windows : windows[i].name = name
  THEN LET w == windows[CHOOSE i \in DOMAIN windows : windows[i].name = name]
       IN w.end_cycle - w.start_cycle + 1
  ELSE 0

\* C6.  Without a protocol file the flags 1/5/6 mean pre-read / amplification /
\* post-read; with a protocol file every flag is a 1-based position in the
\* stage list, and a read is amplification only if its flag names a CYCLING
\* stage that collects data.
C6_LegacyOnlyWithoutProtocol ==
  (IsEdsDone /\ result.status = "ok") =>
    LET w == result.data_windows
    IN IF file.has_protocol
       THEN /\ WindowLen(w, "Amplification")
                 = NamedStages(file, {st \in StageKinds : st.flag = "CYCLING" /\ st.collect})
            /\ WindowLen(w, "Pre-read") = NamedStages(file, {st \in StageKinds : st.flag = "PRE_READ"})
            /\ WindowLen(w, "Post-read") = NamedStages(file, {st \in StageKinds : st.flag = "POST_READ"})
       ELSE /\ WindowLen(w, "Amplification") = FlagCount(file, 5)
            /\ WindowLen(w, "Pre-read") = FlagCount(file, 1)
            /\ WindowLen(w, "Post-read") = FlagCount(file, 6)

\* the plate reads that have a PAr text, in file order
KeptReads(f) == SelectSeq(f.reads, LAMBDA r : r.kind # "empty")

RowOf(id) == (CHOOSE i \in 1..8 : WELL_ROWS[i] = id[1]) - 1

PositionOfWell(id) == RowOf(id) * 12 + (id[2] - 1)

ChannelMajor(ch, pos) == ch * ((9 * 12) * 4) + pos * 4

PositionMajor(ch_count, ch, pos) == pos * (ch_count * 4) + ch * 4

AmpStartCycle(windows) ==
  windows[CHOOSE i \in DOMAIN windows : windows[i].name = "Amplification"].start_cycle

\* the step of _subtract_baseline, from the raw cycle_data to the one it leaves
C9_BaselineStep ==
  LET a == AmpStartCycle(data_windows)
  IN /\ \A id \in DOMAIN cycle_data'[a].wells :
          /\ cycle_data'[a].wells[id].fam = 0
          /\ cycle_data'[a].wells[id].allele2 = 0
     /\ \A c \in DOMAIN cycle_data : \A id \in DOMAIN cycle_data[c].wells :
          id \in DOMAIN cycle_data[a].wells =>
            /\ cycle_data'[c].wells[id].fam
                 = cycle_data[c].wells[id].fam - cycle_data[a].wells[id].fam
            /\ cycle_data'[c].wells[id].allele2
                 = cycle_data[c].wells[id].allele2 - cycle_data[a].wells[id].allele2

\* the readings parse_pcrd returns are the values of cycle_data
C9_EmittedStep ==
  /\ result'.status = "ok"
  /\ \A c \in DOMAIN cycle_data : \A id \in DOMAIN cycle_data[c].wells :
       \E i \in DOMAIN result'.data :
         result'.data[i] = WellCycleData(id, c, cycle_data[c].wells[id].fam,
                                         cycle_data[c].wells[id].allele2,
                                         cycle_data[c].wells[id].rox)
  /\ \A i \in DOMAIN result'.data :
       /\ result'.data[i].cycle \in DOMAIN cycle_data
       /\ result'.data[i].well \in DOMAIN cycle_data[result'.data[i].cycle].wells

\* C9.  Baseline subtraction leaves FAM = allele-2 = 0 for every well of the
\* first Amplification cycle, and for every cycle c and every well w that has a
\* reading at the first Amplification cycle the value after is the raw value at
\* (c, w) minus the raw value of w at that cycle; these are the values emitted.
C9_BaselineSubtraction ==
  [][/\ pc = "classified" => C9_BaselineStep
     /\ pc = "baselined" => C9_EmittedStep]_vars

\* a run with a Pre-read cycle before Amplification and distinct payloads
C9_Witness ==
  /\ entry = "parse_pcrd"
  /\ pc = "done"
  /\ result.status = "ok"
  /\ Len(data_windows) >= 2
  /\ data_windows[1].name = "Pre-read"
  /\ \E i \in DOMAIN result.data :
       result.data[i].cycle = 1 /\ result.data[i].fam # 0
  /\ \E i \in DOMAIN result.data :
       /\ result.data[i].cycle = AmpStartCycle(data_windows)
       /\ result.data[i].cycle > 1
       /\ result.data[i].fam = 0
       /\ result.data[i].allele2 = 0

\* C10.  The step of _subtract_baseline changes no reference-dye value, no
\* cycle number, no set of wells of a cycle and no DataWindow, and nothing
\* outside the FAM and allele-2 values.
C10_BaselineFrame ==
  [][pc = "classified" =>
       /\ data_windows' = data_windows
       /\ DOMAIN cycle_data' = DOMAIN cycle_data
       /\ \A c \in DOMAIN cycle_data :
            /\ cycle_data'[c].cycle = cycle_data[c].cycle
            /\ DOMAIN cycle_data'[c].wells = DOMAIN cycle_data[c].wells
            /\ \A id \in DOMAIN cycle_data[c].wells :
                 cycle_data'[c].wells[id].rox = cycle_data[c].wells[id].rox
       /\ DOMAIN plate_reads' = DOMAIN plate_reads
       /\ \A k \in DOMAIN plate_reads :
            /\ plate_reads'[k].step = plate_reads[k].step
            /\ DOMAIN plate_reads'[k].wells = DOMAIN plate_reads[k].wells
            /\ \A id \in DOMAIN plate_reads[k].wells :
                 plate_reads'[k].wells[id].rox = plate_reads[k].wells[id].rox
       /\ UNCHANGED <<concVars, entry, file, result>>]_vars

\* after a subtraction that changed FAM values of a run with a reference dye
C10_Witness ==
  /\ entry = "parse_pcrd"
  /\ pc = "baselined"
  /\ Len(cycle_data) >= 2
  /\ \E c \in DOMAIN cycle_data : \E id \in DOMAIN cycle_data[c].wells :
       /\ cycle_data[c].wells[id].rox # None
       /\ cycle_data[c].wells[id].rox[1] > 0
       /\ cycle_data[c].wells[id].fam # 0

IsPcrdDone == entry = "parse_pcrd" /\ pc = "done" /\ result.status = "ok"

\* the loop annotation a returned ProtocolStep carries, <<>> when it has none
AnnotationOf(st) == IF "goto_label" \in DOMAIN st THEN st.goto_label ELSE <<>>

\* C11.  For the step list [T1, T2, T3, GOTO(target = 1, count = 24)] the
\* returned protocol has three steps, the steps of its one loop group have
\* repeat count 25, and exactly one step carries a loop annotation: T3.
C11_LoopExample ==
  (IsPcrdDone /\ file.protocol = LoopExample) =>
    LET steps == result.protocol_steps
    IN /\ Len(steps) = 3
       /\ {steps[n].cycles : n \in {k \in DOMAIN steps : steps[k].cycles > 1}} = {25}
       /\ AnnotationOf(steps[3]) # <<>>
       /\ \A n \in {1, 2} : AnnotationOf(steps[n]) = <<>>

\* the number of plate reads that report step s
ReadsOfStep(s) == Cardinality({k \in DOMAIN plate_reads : plate_reads[k].step = s})

\* the step ids of the plate reads, and the n-th of them by first appearance
StepIds == {plate_reads[k].step : k \in DOMAIN plate_reads}

FirstRead(s) == CHOOSE k \in DOMAIN plate_reads :
                  plate_reads[k].step = s /\ \A j \in 1..(k - 1) : plate_reads[j].step # s

NthStep(n) == CHOOSE s \in StepIds :
                Cardinality({t \in StepIds : FirstRead(t) <= FirstRead(s)}) = n

\* C12.  After _classify_reads_into_windows there is one window per step id, in
\* the order the step ids first appear, each as long as its read group.  With
\* one group the only window is Amplification(1, number of reads); with more,
\* exactly one window is named Amplification, its group has the most reads,
\* every window before it is named Pre-read and every window after it Post-read.
C12_WindowNames ==
  (entry = "parse_pcrd" /\ pc = "classified") =>
    LET ws == data_windows
        amps == {k \in DOMAIN ws : ws[k].name = "Amplification"}
    IN /\ Len(ws) = Cardinality(StepIds)
       /\ \A k \in DOMAIN ws :
            ws[k].end_cycle - ws[k].start_cycle + 1 = ReadsOfStep(NthStep(k))
       /\ Cardinality(amps) = 1
       /\ Cardinality(StepIds) = 1
            => ws = <<DataWindow("Amplification", 1, Len(plate_reads))>>
       /\ \A a \in amps :
            /\ \A s \in StepIds : ReadsOfStep(s) <= ReadsOfStep(NthStep(a))
            /\ \A k \in 1..(a - 1) : ws[k].name = "Pre-read"
            /\ \A k \in (a + 1)..Len(ws) : ws[k].name = "Post-read"

\* two read groups, the larger one second
C12_Witness ==
  /\ entry = "parse_pcrd"
  /\ pc = "classified"
  /\ data_windows = <<DataWindow("Pre-read", 1, 1), DataWindow("Amplification", 2, 3)>>

\* C13.  After _classify_reads_into_windows the cycle numbers follow the file:
\* the c-th plate read of the file is cycle c, also when reads of different
\* step ids are interleaved.
C13_EncounterOrder ==
  (entry = "parse_pcrd" /\ pc = "classified") =>
    /\ Len(cycle_data) = Len(plate_reads)
    /\ \A c \in DOMAIN cycle_data :
         cycle_data[c].cycle = c /\ cycle_data[c].wells = plate_reads[c].wells

\* a finished detect_and_parse call on an .xlsx file
IsCfxDone == entry = "detect_and_parse" /\ pc = "done" /\ file.ext = ".xlsx"

\* an entry name with a backslash, or a wrong-case spelling of one of the two
\* fixed file names
PackagingDefect(n) ==
  \/ Slashed(n) # n
  \/ Lower(n) = "[content_types].xml" /\ n # "[Content_Types].xml"
  \/ Lower(n) = "xl/sharedstrings.xml" /\ n # "xl/sharedStrings.xml"

\* C14.  needs_fixing reports an archive exactly when one of its entry names
\* has a backslash or is a wrong-case spelling of [Content_Types].xml or of
\* xl/sharedStrings.xml: a well-formed archive is never reported, an archive
\* with one of the defects alone always is.
C14_NeedsFixingExact ==
  (IsCfxDone /\ file.is_zip) =>
    (needs_fixing(file) <=> \E n \in file.names : PackagingDefect(n))

\* C15.  When a detect_and_parse call has returned, on success or on any
\* failure, no temporary file or directory it created is left.
C15_TempFilesRemoved ==
  (entry = "detect_and_parse" /\ pc = "done") => temp_files = {}

\* a finished call that returned a UnifiedData
IsParsed == entry = "detect_and_parse" /\ pc = "done" /\ result.status = "ok"

\* the result came through one of the well-id normalizations: an End Point or
\* Allelic Discrimination spreadsheet, or the ADSheet file of an XML archive
IsNormalized ==
  \/ /\ file.ext = ".xlsx"
     /\ \/ "FAM" \notin sheet_names(file)
        \/ sheet(file, "FAM").headers # WideHeaders
  \/ /\ file.ext = ".zip"
     /\ result.data_windows = <<DataWindow("End Point", 1, 1)>>

\* the canonical form "A1" of a well string: upper-case row, unpadded column
Canonical(id) ==
  <<CASE well_first(id) = "a" -> "A" [] OTHER -> well_first(id), id[2]>>

\* C16.  Every well id of a result that came through the well-id
\* normalization of the CFX spreadsheet and XML parsers is in the canonical
\* form: upper-case row letter and unpadded column, so "A01" and "a1" both
\* appear as "A1" and never as a second well.
C16_WellIdsCanonical ==
  (IsParsed /\ IsNormalized) =>
    \A i \in DOMAIN result.data : result.data[i].well = Canonical(result.data[i].well)

\* a finished call on a workbook that opens, has a FAM and a HEX or VIC sheet,
\* and whose FAM sheet is not in the wide format
IsLongDyeWorkbook ==
  /\ IsCfxDone
  /\ load_workbook_ok(file, file.names)
  /\ "FAM" \in sheet_names(file)
  /\ sheet(file, "FAM").headers # WideHeaders

\* the FAM sheet has the Well and End RFU columns of the End Point layout
HasEndPointColumns == {"Well", "End RFU"} \subseteq Range(sheet(file, "FAM").headers)

C18_NoFillerValues ==
  IsParsed =>
    \A i \in DOMAIN result.data : result.data[i].fam # 0 /\ result.data[i].allele2 # 0

\* C19.  A result has a sample-name map only if the name of at least one
\* well differs from the placeholder "SNP": when every named well carries
\* the placeholder, the map is absent.
C19_NamesOnlyIfMeaningful ==
  (IsParsed /\ result.sample_names # None) =>
    \E i \in DOMAIN result.sample_names[1] : result.sample_names[1][i].val # "SNP"

\* what detect_and_parse returns for a file of another format than .pcrd
OutcomeOf(f) ==
  CASE f.ext = ".eds" -> handle_eds(f)
    [] f.ext = ".xls" -> handle_quantstudio(f)
    [] f.ext = ".xlsx" -> handle_cfx_opus(f).result
    [] f.ext = ".zip" -> handle_zip(f).result

\* C20.  Without PCRD_PASSWORD, parse_pcrd fails with the configuration error
\* before it opens the archive or reads anything from it: the error is the
\* same whether or not the file is an archive and whatever it holds, and no
\* plate read is taken.  For a file of any other format the outcome without
\* the key is the outcome with the key.
C20_KeyOnlyForPcrd ==
  /\ (entry = "parse_pcrd" /\ ~file.has_key /\ pc # "start") =>
       /\ pc = "done"
       /\ result = Fail("ValueError: PCRD_PASSWORD is not set")
       /\ plate_reads = <<>>
  /\ (entry = "detect_and_parse" /\ pc = "done" /\ ~file.has_key) =>
       result = OutcomeOf([file EXCEPT !.has_key = TRUE])

C20_Witness ==
  /\ entry = "parse_pcrd"
  /\ pc = "done"
  /\ ~file.has_key
  /\ ~file.is_zip
  /\ result = Fail("ValueError: PCRD_PASSWORD is not set")

\* what the call returns when it runs alone
AloneResult(f) ==
  IF f.ext = ".zip" THEN handle_zip(f).result ELSE handle_cfx_opus(f).result

\* C21: two detect_and_parse calls running at the same time on independent
\* uploads each return what they return when run alone, under every
\* interleaving: no call reads, overwrites or deletes a temporary file or
\* directory created by the other
C21_ConcurrentCallsIndependent ==
  \A i \in DOMAIN calls :
    calls[i].pc = <<"done", 0>> => calls[i].result = AloneResult(calls[i].file)

\* the 0-based raw indices of the temperature steps, in order
TempIdxs(raw) == SelectSeq([k \in 1..Len(raw) |-> k - 1], LAMBDA i : raw[i + 1].type = "temp")

\* the product of (extra repeat count + 1) over the GOTO loops whose range
\* [target, goto position) contains raw index i; 1 when there is none
LoopProduct(raw, i) ==
  LET gs == goto_idxs(raw)
      RECURSIVE Prod(_)
      Prod(n) == IF n = 0 THEN 1
                 ELSE Prod(n - 1) * (IF i \in goto_range(raw, gs[n])
                                     THEN raw[gs[n] + 1].count + 1 ELSE 1)
  IN Prod(Len(gs))

\* C22: the repeat count reported for every temperature step is the product
\* of (extra repeat count + 1) over all GOTO loops whose range contains the
\* step, and 1 for a step in no loop
C22_MultipliedCounts ==
  IsPcrdDone =>
    \A n \in DOMAIN result.protocol_steps :
      result.protocol_steps[n].cycles = LoopProduct(file.protocol, TempIdxs(file.protocol)[n])

\* the temperature steps of the loop of the GotoStep at raw index g
LoopTemps(raw, g) == {j \in goto_range(raw, g) : j >= 0 /\ raw[j + 1].type = "temp"}

\* the annotation of that loop: its first step number, its last step number
\* and its total cycle count
LoopAnnotation(raw, g) ==
  LET ts == LoopTemps(raw, g)
  IN <<raw_to_step(raw, CHOOSE j \in ts : \A k \in ts : j <= k),
       raw_to_step(raw, CHOOSE j \in ts : \A k \in ts : k <= j),
       raw[g + 1].count + 1>>

\* the loops whose final temperature step is raw index i
LoopsEndingAt(raw, i) ==
  {g \in Range(goto_idxs(raw)) :
     /\ i \in LoopTemps(raw, g)
     /\ \A k \in LoopTemps(raw, g) : k <= i}

\* the loop annotations a returned step carries
AnnotationsOf(st) == IF AnnotationOf(st) = <<>> THEN {} ELSE {AnnotationOf(st)}

\* C23: every loop gets exactly one annotation, attached to the loop's
\* final temperature step and naming the loop's first step number, last
\* step number and total cycle count; a step that is no loop's final step
\* carries none, and the annotation of no loop is lost when two loops end
\* on the same step (.pcrd reconstructor)
C23_OneAnnotationPerLoop ==
  IsPcrdDone =>
    LET raw == file.protocol
        steps == result.protocol_steps
    IN \A n \in DOMAIN steps :
         AnnotationsOf(steps[n]) =
           {LoopAnnotation(raw, g) : g \in LoopsEndingAt(raw, TempIdxs(raw)[n])}

\* a finished detect_and_parse call on a .zip archive that can be read
IsZipRead ==
  /\ entry = "detect_and_parse"
  /\ pc = "done"
  /\ file.ext = ".zip"
  /\ file.is_zip
  /\ file.members_ok

HasEntry(suffix) == suffix \in file.names

HasAdsheet == HasEntry("Allelic Discrimination Results_ADSheet.xml")

HasAmplification ==
  /\ HasEntry("Quantification Amplification Results_FAM.xml")
  /\ \/ HasEntry("Quantification Amplification Results_HEX.xml")
     \/ HasEntry("Quantification Amplification Results_VIC.xml")

HasEndPoint ==
  \E n \in file.names :
    n \in {"End Point Results_FAM.xml", "End Point Results_HEX.xml",
           "End Point Results_VIC.xml", "End Point Results_ROX.xml"}

OneCycleEndPoint ==
  /\ result.status = "ok"
  /\ result.cycles = {1}
  /\ result.data_windows = <<DataWindow("End Point", 1, 1)>>

\* C24: for every readable archive exactly one outcome of the decision
\* table is taken: without the ADSheet file the call fails; with ADSheet,
\* amplification FAM and amplification HEX or VIC the result is that of the
\* multi-cycle tier; otherwise with ADSheet and any End Point file it is
\* that of the end-point tier (one cycle, window End Point); otherwise it
\* is that of the calls-only tier (one cycle, window End Point)
C24_TierTable ==
  IsZipRead =>
    IF ~HasAdsheet THEN result.status = "error"
    ELSE IF HasAmplification THEN result = assemble_tier1(file, find_xml_files(file.names))
    ELSE IF HasEndPoint
    THEN result = assemble_tier2(file, find_xml_files(file.names)) /\ OneCycleEndPoint
    ELSE result = assemble_tier3(file) /\ OneCycleEndPoint

\* an archive with ADSheet, End Point files and amplification files of
\* both alleles was read by the multi-cycle tier
C24_Witness ==
  /\ IsZipRead
  /\ HasAdsheet /\ HasAmplification /\ HasEndPoint
  /\ result.status = "ok"
  /\ result.cycles = {1, 2}
  /\ result.data_windows = <<DataWindow("Amplification", 1, 2)>>

\* the number of values the summary array of a plate read holds
ArrayLen(r) == IF r.kind = "empty" THEN 0 ELSE read_len(r)

\* channels x positions x 4, channels and positions (rows x columns, the
\* reference row included) from the header of the read
DeclaredLen(r) == r.ch_count * (9 * r.num_cols) * 4

\* C25: a .pcrd file with a plate read whose summary array holds fewer
\* values than its own header declares never yields a result: the whole
\* parse fails
C25_ShortArrayFatal ==
  (/\ entry = "parse_pcrd"
   /\ pc = "done"
   /\ \E k \in DOMAIN file.reads : ArrayLen(file.reads[k]) < DeclaredLen(file.reads[k]))
    => result.status = "error"

\* C26: every ProtocolStep of a returned result carries the phase label and
\* the loop annotation the reconstructor computed for that step (.pcrd
\* parser)
C26_StepKeepsPhaseAndAnnotation ==
  IsPcrdDone =>
    \A n \in DOMAIN result.protocol_steps :
      LET st == result.protocol_steps[n]
          kw == protocol_kwargs(file.protocol)[n]
      IN /\ {"phase", "goto_label"} \subseteq DOMAIN st
         /\ st.phase = kw.phase
         /\ st.goto_label = kw.goto_label

\* the channelPosition of the dye layer that carries the dye name the
\* result reports as second-allele dye
ReportedAllele2Channel(f) ==
  LET dye == parse_dye_layers(f.layers).allele2_dye
  IN f.layers[LastLayer(f.layers, {dye})].ch

\* C27: after _parse_plate_reads the allele-2 value of every emitted well
\* is the value of the channel bound to the dye reported as second-allele
\* dye, also when the plate setup declares both a HEX and a VIC layer
C27_Allele2ChannelMatchesDye ==
  (entry = "parse_pcrd" /\ pc = "reads") =>
    LET ch == ReportedAllele2Channel(file)
        src == KeptReads(file)
    IN \A k \in DOMAIN plate_reads :
         \A id \in DOMAIN plate_reads[k].wells :
           ch >= 0 =>
             plate_reads[k].wells[id].allele2 = src[k].off + ChannelMajor(ch, PositionOfWell(id))

\* the index is one of the values the header of the read declares
IndexInArray(r, i) == i >= 0 /\ i < r.ch_count * (n_positions * 4)

\* C28: after _parse_plate_reads, for every plate read and every emitted
\* well, the index used to read the FAM value, the allele-2 value and the
\* reference value is >= 0 and below ChCount x positions x 4: no value is
\* read by negative indexing or from outside the declared array
C28_IndicesInArray ==
  (entry = "parse_pcrd" /\ pc = "reads") =>
    LET cm == parse_dye_layers(file.layers).channel_map
        src == KeptReads(file)
    IN \A k \in DOMAIN plate_reads :
         \A p \in read_indices(src[k], file.assigned) :
           /\ IndexInArray(src[k], value_index(src[k], fam_channel(cm), p))
           /\ allele2_channel(cm) >= 0 =>
                IndexInArray(src[k], value_index(src[k], allele2_channel(cm), p))
           /\ rox_channel(cm) >= 0 =>
                IndexInArray(src[k], value_index(src[k], rox_channel(cm), p))

\* C29: _parse_protocol is total: no parse_pcrd call ends with an error
\* raised by the protocol reconstruction, and a returned protocol has one
\* step per temperature step, numbered 1..K
C29_ProtocolTotal ==
  (entry = "parse_pcrd" /\ pc = "done") =>
    /\ result.status = "error" => result.kind # pcrd_parse_protocol(file.protocol).error
    /\ result.status = "ok" =>
         /\ Len(result.protocol_steps) = Len(TempIdxs(file.protocol))
         /\ \A n \in DOMAIN result.protocol_steps : result.protocol_steps[n].step = n

\* the header row is accepted as Multicomponent Data or as Amplification Data
RoutedToParser(f) ==
  LET h == {Upper(f.headers[i]) : i \in DOMAIN f.headers}
  IN \/ "FAM" \in h /\ ("VIC" \in h \/ "HEX" \in h) /\ "CYCLE" \in h
     \/ "TARGET NAME" \in h /\ ("RN" \in h \/ "DELTA RN" \in h) /\ "CYCLE" \in h

\* C30: an .xls file whose header row the detector accepts never fails in
\* the parser it is routed to with a missing-columns error, and a header
\* row that is not accepted fails in the detector with its diagnostic
C30_RoutedHeadersSatisfyParser ==
  (/\ entry = "detect_and_parse"
   /\ pc = "done"
   /\ file.ext = ".xls"
   /\ file.header_found) =>
    IF RoutedToParser(file)
    THEN result.status = "error" =>
           result.kind \notin {"ValueError: missing required columns",
                               "ValueError: no VIC or HEX column"}
    ELSE /\ result.status = "error"
         /\ result.kind = "ValueError: not a usable QuantStudio file"

====
